---- MODULE Spec2Model ----
(***************************************************************************)
(* Per-seat data-device state of smithay (src/wayland/data_device/mod.rs)  *)
(* together with the keyboard handle of the seat                           *)
(* (src/wayland/seat/keyboard.rs).                                         *)
(*                                                                         *)
(* Protocol objects are numbered: 0 stands for None / null, clients and    *)
(* surfaces are fixed sets, data devices, data sources and data offers are *)
(* created by the actions and are numbered in creation order.              *)
(*                                                                         *)
(* `out` is the observable effect of the handler that ran last: every wire *)
(* event, embedder callback, debug message, fd close and store into        *)
(* SeatData.selection, in program order.                                   *)
(***************************************************************************)
EXTENDS Integers, Sequences, FiniteSets, TLC

VARIABLES
    client_alive,   \* Client -> BOOLEAN: the client is still connected
    surf_alive,     \* Surface -> BOOLEAN
    surf_role,      \* Surface -> role string ("" = no role)
    has_keyboard,   \* seat.get_keyboard().is_some()
    kbd_focus,      \* KbdInternal.focus: a surface or 0
    has_pointer,    \* seat.get_pointer().is_some()
    ptr_grab,       \* the pointer's grab slot
    seat_ready,     \* the seat's user data holds a RefCell<SeatData>
    known_devices,  \* SeatData.known_devices
    selection,      \* SeatData.selection
    current_focus,  \* SeatData.current_focus: a client or 0
    devices,        \* wl_data_device resources, in creation order
    sources,        \* wl_data_source resources, in creation order
    offers,         \* wl_data_offer resources, in creation order
    dd_selection,   \* per data device: the last selection event it received
    keyboards,      \* wl_keyboard resources, in creation order
    known_kbds,     \* KbdInternal.known_kbds
    pending_focus,  \* KbdInternal.pending_focus: a surface or 0
    pressed_keys,   \* KbdInternal.pressed_keys
    mods_state,     \* KbdInternal.mods_state
    xkb_state,      \* KbdInternal.state, the xkb::State
    repeat_info,    \* KbdInternal.repeat_rate and repeat_delay
    kbd_grab,       \* KbdInternal.grab
    dnd_action,     \* per data source: SourceMetadata.dnd_action
    offer_data,     \* the drag grab's data of the offer made to its target
    out             \* effects of the last handler, in program order

vars == <<client_alive, surf_alive, surf_role, has_keyboard, kbd_focus,
          has_pointer, ptr_grab, seat_ready, known_devices, selection,
          current_focus, devices, sources, offers, dd_selection, keyboards,
          known_kbds, pending_focus, pressed_keys, mods_state, xkb_state,
          repeat_info, kbd_grab, dnd_action, offer_data, out>>

kbdInner == <<known_kbds, pending_focus, pressed_keys, mods_state, xkb_state,
              repeat_info, kbd_grab>>
kbdVars  == <<has_keyboard, kbd_focus, keyboards, kbdInner>>
ptrVars  == <<has_pointer, ptr_grab>>
seatVars == <<seat_ready, known_devices, selection, current_focus>>
dndVars  == <<dnd_action, offer_data>>

----------------------------------------------------------------------------
(* Bounds and input sets *)

MaxDevices == 2
MaxSources == 1
MaxOffers  == 2
MaxKbds    == 2
MaxPressed == 2

Clients   == {1, 2}
Surfaces  == {1, 2, 3}
MimeTypes == {"text/plain", "text/html"}
\* what a receive request may ask for: also a type nobody offers
ReceiveMimes == MimeTypes \cup {"image/png"}
\* the MIME lists the compositor passes to set_data_device_selection
CompositorMimeLists == {<<"text/html", "text/plain">>}
Fds       == {5, 7}
Serials   == {1, 2}

\* each client owns the surface that carries its number; client 1 owns a
\* second surface, 3
SurfaceClient(s) == IF s = 3 THEN 1 ELSE s
\* the first surface of each client
MainSurfaces == {s \in Surfaces : SurfaceClient(s) = s}

Range(q) == {q[i] : i \in 1..Len(q)}

----------------------------------------------------------------------------
(* Effects *)

Ev(k, dev, obj, mime, fd) ==
    [k |-> k, dev |-> dev, obj |-> obj, mime |-> mime, fd |-> fd]

\* debug!(log, msg)
DebugEv(msg)         == Ev("debug!", 0, 0, msg, 0)
DenySelectionMsg == "denying setting selection by a non-focused client"
DenyDragMsg      == "denying drag from client without implicit grab"
DenyReceiveMsg   == "Denying a wl_data_offer.receive with invalid source."

DataOfferEv(d, o)    == Ev("wl_data_device.data_offer", d, o, "", 0)
OfferEv(d, o, m)     == Ev("wl_data_offer.offer", d, o, m, 0)
SelectionEv(d, o)    == Ev("wl_data_device.selection", d, o, "", 0)
SendEv(s, m, fd)     == Ev("wl_data_source.send", 0, s, m, fd)
CloseEv(fd)          == Ev("close", 0, 0, "", fd)
\* the store into SeatData.selection: the new value's source and its kind
StoreSelectionEv(sel) == Ev("SeatData.selection", 0, sel.source, sel.kind, 0)
NewSelectionCb(s)    == Ev("DataDeviceEvent::NewSelection", 0, s, "", 0)
SendSelectionCb(m, fd) == Ev("DataDeviceEvent::SendSelection", 0, 0, m, fd)
DnDStartedCb(s, icon) == Ev("DataDeviceEvent::DnDStarted", icon, s, "", 0)
PostErrorEv(d)       == Ev("wl_data_device.post_error(Role)", d, 0, "", 0)
FocusHookEv(s)       == Ev("focus_hook", 0, s, "", 0)
\* warn!(logger, msg)
WarnEv(msg)          == Ev("warn!", 0, 0, msg, 0)
KeymapFailedMsg  == "Failed write keymap to client in a tempfile"

\* wl_keyboard events
KeymapEv(kbd) == [k |-> "wl_keyboard.keymap", kbd |-> kbd]
RepeatInfoEv(kbd, rate, delay) ==
    [k |-> "wl_keyboard.repeat_info", kbd |-> kbd, rate |-> rate, delay |-> delay]
LeaveEv(kbd, serial, surface) ==
    [k |-> "wl_keyboard.leave", kbd |-> kbd, serial |-> serial, surface |-> surface]
EnterEv(kbd, serial, surface, keys) ==
    [k |-> "wl_keyboard.enter", kbd |-> kbd, serial |-> serial,
     surface |-> surface, keys |-> keys]
ModifiersEv(kbd, serial, mods) ==
    [k |-> "wl_keyboard.modifiers", kbd |-> kbd, serial |-> serial, mods |-> mods]
KeyEv(kbd, serial, time, key, state) ==
    [k |-> "wl_keyboard.key", kbd |-> kbd, serial |-> serial, time |-> time,
     key |-> key, state |-> state]

\* calls into embedder code: the input filter and the handler of an installed
\* grab; the value input returns
FilterEv(ms, keycode) ==
    [k |-> "filter", mods_state |-> ms, keycode |-> keycode]
GrabInputEv(handler, key, state, modifiers, serial, time) ==
    [k |-> "KeyboardGrab::input", handler |-> handler, key |-> key,
     state |-> state, modifiers |-> modifiers, serial |-> serial, time |-> time]
GrabSetFocusEv(handler, focus, serial) ==
    [k |-> "KeyboardGrab::set_focus", handler |-> handler, focus |-> focus,
     serial |-> serial]
ReturnEv(val) == [k |-> "KeyboardHandle::input return", val |-> val]
\* panic!(msg): the call unwinds
PanicEv(msg) == [k |-> "panic!", msg |-> msg]
BorrowedMsg == "Accessed a keyboard grab from within a keyboard grab access."
\* RefCell::borrow_mut while the cell is borrowed
AlreadyBorrowedMsg == "already borrowed: BorrowMutError"
\* the boxed handler of a grab is dropped: its destructor runs
DropGrabEv(handler) == [k |-> "drop(Box<dyn KeyboardGrab>)", handler |-> handler]

----------------------------------------------------------------------------
(* Selection values *)

EmptySel           == [kind |-> "Empty", source |-> 0, mimes |-> <<>>]
ClientSel(s)       == [kind |-> "Client", source |-> s, mimes |-> <<>>]
CompositorSel(ms)  == [kind |-> "Compositor", source |-> 0, mimes |-> ms]

\* SeatData::new
NewSeatData ==
    [known_devices |-> <<>>, selection |-> EmptySel, current_focus |-> 0]

\* insert(..) in place of insert_if_missing(..): a fresh SeatData each time
SeatDataAlwaysNew == NewSeatData

\* seat.user_data().insert_if_missing(|| RefCell::new(SeatData::new(..)))
\* followed by get::<RefCell<SeatData>>().unwrap()
SeatDataOrNew ==
    IF seat_ready
    THEN [known_devices |-> known_devices, selection |-> selection,
          current_focus |-> current_focus]
    ELSE NewSeatData

----------------------------------------------------------------------------
(* Resource liveness *)

DeviceIds == 1..Len(devices)
SourceIds == 1..Len(sources)
OfferIds  == 1..Len(offers)

LiveDevices == {d \in DeviceIds : devices[d].alive}
LiveSources == {s \in SourceIds : sources[s].alive}
LiveOffers  == {o \in OfferIds : offers[o].alive}

\* with_source_metadata(source, f): f applied to the metadata, Err for a
\* source that is gone
WithSourceMimes(s) ==
    IF sources[s].alive THEN [ok |-> TRUE, mimes |-> sources[s].mimes]
    ELSE [ok |-> FALSE, mimes |-> <<>>]

----------------------------------------------------------------------------
(* SeatData::send_selection *)

\* the sanitising step: a client selection whose source is gone becomes Empty
SanitizeKeepsDead(sel) == sel
Sanitize(sel) ==
    IF sel.kind = "Client" /\ ~sources[sel.source].alive THEN EmptySel ELSE sel

\* dd.as_ref().client().map(|c| !c.equals(client)).unwrap_or(true) is false
SkipsNothing(d, c) == TRUE
BelongsTo(d, c) == devices[d].alive /\ devices[d].client = c

\* the devices of known_devices the pass sends to, in list order
RECURSIVE Targets(_, _)
Targets(known, c) ==
    IF known = <<>> THEN <<>>
    ELSE IF BelongsTo(Head(known), c)
         THEN <<Head(known)>> \o Targets(Tail(known), c)
         ELSE Targets(Tail(known), c)

\* the MIME list advertised for a non-empty selection
SelMimes(sel) ==
    IF sel.kind = "Client" THEN WithSourceMimes(sel.source).mimes ELSE sel.mimes

\* what one device is sent for a non-empty selection, through fresh offer o
AdvertiseSelectionFirst(d, o, ms) ==
    <<SelectionEv(d, o), DataOfferEv(d, o)>>
        \o [j \in 1..Len(ms) |-> OfferEv(d, o, ms[j])]
Advertise(d, o, ms) ==
    <<DataOfferEv(d, o)>>
        \o [j \in 1..Len(ms) |-> OfferEv(d, o, ms[j])]
        \o <<SelectionEv(d, o)>>

\* the offer resource created for device d
NewOffer(d, sel) ==
    [client |-> devices[d].client, dev |-> d, kind |-> sel.kind,
     source |-> sel.source, mimes |-> sel.mimes, alive |-> TRUE]

\* the loop over the targets; `base` is the number of offers that exist
RECURSIVE PassEvents(_, _, _)
PassEvents(ts, sel, base) ==
    IF ts = <<>> THEN <<>>
    ELSE IF sel.kind = "Empty"
         THEN <<SelectionEv(Head(ts), 0)>> \o PassEvents(Tail(ts), sel, base)
         ELSE Advertise(Head(ts), base + 1, SelMimes(sel))
                  \o PassEvents(Tail(ts), sel, base + 1)

PassOffers(ts, sel) ==
    IF sel.kind = "Empty" THEN <<>>
    ELSE [i \in 1..Len(ts) |-> NewOffer(ts[i], sel)]

\* the last selection event of each device after the pass
PassTold(ts, sel, base) ==
    [d \in DeviceIds |->
        IF \E i \in 1..Len(ts) : ts[i] = d
        THEN IF sel.kind = "Empty" THEN 0
             ELSE base + (CHOOSE i \in 1..Len(ts) : ts[i] = d)
        ELSE dd_selection[d]]

\* send_selection on seat data sd: the seat data, offers, events and device
\* views it leaves
SendSelection(sd) ==
    IF sd.current_focus = 0
    THEN [sd |-> sd, offers |-> offers, out |-> <<>>, told |-> dd_selection,
          ran |-> FALSE, cleanup |-> FALSE]
    ELSE LET sel == Sanitize(sd.selection)
             ts  == Targets(sd.known_devices, sd.current_focus)
         IN  [sd      |-> [sd EXCEPT !.selection = sel],
              offers  |-> offers \o PassOffers(ts, sel),
              out     |-> (IF sel # sd.selection
                           THEN <<StoreSelectionEv(sel)>> ELSE <<>>)
                          \o PassEvents(ts, sel, Len(offers)),
              told    |-> PassTold(ts, sel, Len(offers)),
              ran     |-> TRUE,
              cleanup |-> sel # sd.selection]

\* SeatData::set_selection
SeatSetSelection(sd, new_selection) ==
    LET r == SendSelection([sd EXCEPT !.selection = new_selection])
    IN  [r EXCEPT !.out = <<StoreSelectionEv(new_selection)>> \o r.out]

\* SeatData::set_focus
SeatSetFocus(sd, new_focus) ==
    SendSelection([sd EXCEPT !.current_focus = new_focus])

\* write a send_selection result back
Commit(r, prefix) ==
    /\ seat_ready' = TRUE
    /\ known_devices' = r.sd.known_devices
    /\ selection' = r.sd.selection
    /\ current_focus' = r.sd.current_focus
    /\ offers' = r.offers
    /\ dd_selection' = r.told
    /\ out' = prefix \o r.out

----------------------------------------------------------------------------
(* Keyboard state: KbdInternal and the xkb state it wraps *)

\* the evdev key codes fed to input: KEY_LEFTSHIFT and KEY_OK
Keys      == {42, 352}
KeyStates == {"Pressed", "Released"}
Times     == {100}
\* what the filter closure may answer
FilterResults ==
    {[kind |-> "Forward", val |-> ""], [kind |-> "Intercept", val |-> "binding"]}
\* wl_keyboard versions a client may bind
KbdVersions == {3, 4}

\* Option<T>
None    == <<>>
Some(v) == <<v>>

\* xkb::State::new(&keymap): the number of presses of a shift key that are
\* still held (xkbcommon counts the presses of a modifier key)
NewXkbState == [shift |-> 0]
\* the X key codes that carry Shift in the keymap: KEY_LEFTSHIFT + 8
XkbShiftKeycodes == {50}

\* xkb::State::update_key(keycode, direction): the new state and whether any
\* state component changed
XkbUpdateKey(st, xkeycode, direction) ==
    IF xkeycode \notin XkbShiftKeycodes
    THEN [state |-> st, changed |-> FALSE]
    ELSE IF direction = "Down"
         THEN [state |-> [st EXCEPT !.shift = @ + 1], changed |-> st.shift = 0]
         ELSE IF st.shift = 0
              THEN [state |-> st, changed |-> FALSE]
              ELSE [state |-> [st EXCEPT !.shift = @ - 1], changed |-> st.shift = 1]

\* ModifiersState::default()
DefaultModifiersState ==
    [ctrl |-> FALSE, alt |-> FALSE, shift |-> FALSE, caps_lock |-> FALSE,
     logo |-> FALSE, num_lock |-> FALSE]

\* ModifiersState::update_with
UpdateWith(ms, st) == [ms EXCEPT !.shift = st.shift > 0]

\* KbdInternal::serialize_modifiers: depressed, latched, locked, group
SerializeModifiers(st) == <<IF st.shift > 0 THEN 1 ELSE 0, 0, 0, 0>>

\* the pressed_keys arm of KbdInternal::key_input
TrackPressed(keys, keycode, state) ==
    IF state = "Pressed" THEN Append(keys, keycode)
    ELSE SelectSeq(keys, LAMBDA k : k # keycode)

\* KbdInternal::key_input
KeyInputKeepsList(keycode, state) ==
    LET direction == IF state = "Pressed" THEN "Down" ELSE "Up"
        u == XkbUpdateKey(xkb_state, keycode + 8, direction)
    IN  [pressed_keys |-> pressed_keys,
         state        |-> u.state,
         mods_state   |-> IF u.changed THEN UpdateWith(mods_state, u.state)
                          ELSE mods_state,
         changed      |-> u.changed]
KeyInput(keycode, state) ==
    LET direction == IF state = "Pressed" THEN "Down" ELSE "Up"
        u == XkbUpdateKey(xkb_state, keycode + 8, direction)
    IN  [pressed_keys |-> TrackPressed(pressed_keys, keycode, state),
         state        |-> u.state,
         mods_state   |-> IF u.changed THEN UpdateWith(mods_state, u.state)
                          ELSE mods_state,
         changed      |-> u.changed]

\* the four bytes of a u32 in memory (little-endian)
ToBytes(n) ==
    <<n % 256, (n \div 256) % 256, (n \div 65536) % 256, (n \div 16777216) % 256>>

\* KbdInternal::serialize_pressed_keys: the list's memory as bytes
SerializeLowBytes(keys) == [i \in 1..Len(keys) |-> keys[i] % 256]
RECURSIVE SerializePressedKeys(_)
SerializePressedKeys(keys) ==
    IF keys = <<>> THEN <<>>
    ELSE ToBytes(Head(keys)) \o SerializePressedKeys(Tail(keys))

\* GrabStatus::None and GrabStatus::Active(serial, handler); the handler is
\* known by its kind and its start data
NoKbdGrab == [kind |-> "None", serial |-> 0, handler |-> "", focus |-> 0]
ActiveGrab(serial, handler, focus) ==
    [kind |-> "Active", serial |-> serial, handler |-> handler, focus |-> focus]
\* GrabStatus::Borrowed
BorrowedGrab == [kind |-> "Borrowed", serial |-> 0, handler |-> "", focus |-> 0]
\* the grabs the embedder installs: one that swallows what it is given and one
\* that passes it on to the inner handle
GrabHandlers == {"Swallow", "Forward"}
\* grabs whose set_focus swallows and whose input handler ends the grab
\* through the inner handle, with and without restore_focus, installs
\* another grab through it, or calls back into the KeyboardHandle it holds
EndingGrabHandlers == {"UnsetRestore", "UnsetKeep", "Replace", "Reenter"}

\* the repeat rate and delay the embedder passes to Seat::add_keyboard
InitialRepeat == [rate |-> 25, delay |-> 200]
\* and those it passes to change_repeat_info
RepeatInfos == {[rate |-> 40, delay |-> 300]}

\* KbdInternal::new
NewKbdInternal ==
    [known_kbds |-> <<>>, focus |-> 0, pending_focus |-> 0,
     pressed_keys |-> <<>>, mods_state |-> DefaultModifiersState,
     state |-> NewXkbState, repeat_info |-> InitialRepeat, grab |-> NoKbdGrab]

----------------------------------------------------------------------------
(* Drag-and-drop actions *)

\* DndAction, a set of flags: Copy, Move, Ask
DndActions == {"Copy", "Move", "Ask"}
\* DndAction::empty()
NoAction == {}
\* the action sets a client may send
ActionSets == SUBSET DndActions

\* default_action_chooser
ChooserAnyPreferred(available, preferred) ==
    IF preferred # NoAction /\ preferred \subseteq available THEN preferred
    ELSE IF {"Ask"} \subseteq available THEN {"Ask"}
    ELSE IF {"Copy"} \subseteq available THEN {"Copy"}
    ELSE IF {"Move"} \subseteq available THEN {"Move"}
    ELSE NoAction
DefaultActionChooser(available, preferred) ==
    IF /\ \E i \in 1..3 : <<{"Move"}, {"Copy"}, {"Ask"}>>[i] = preferred
       /\ preferred \subseteq available
    THEN preferred
    ELSE IF {"Ask"} \subseteq available THEN {"Ask"}
    ELSE IF {"Copy"} \subseteq available THEN {"Copy"}
    ELSE IF {"Move"} \subseteq available THEN {"Move"}
    ELSE NoAction

\* the data the drag grab keeps for the offer it made to its target
NoOfferData ==
    [active |-> FALSE, surface |-> 0, supported |-> NoAction,
     preferred |-> NoAction, chosen_action |-> NoAction]

\* the first argument of the chooser: what source and target both support
AvailableIgnoresSource(source_actions, supported) == supported
AvailableActions(source_actions, supported) == source_actions \cap supported

\* effects of the negotiation: the chooser call with its result, and the
\* action events to the target's offer and to the source
ActionChoiceEv(available, preferred, result) ==
    [k |-> "action_choice", available |-> available, preferred |-> preferred,
     result |-> result]
OfferActionEv(surface, action) ==
    [k |-> "wl_data_offer.action", surface |-> surface, action |-> action]
SourceActionEv(s, action) ==
    [k |-> "wl_data_source.action", source |-> s, action |-> action]
DnDEnterEv(surface, s) ==
    [k |-> "wl_data_device.enter", surface |-> surface, source |-> s]

----------------------------------------------------------------------------
(* Initial state: a seat without keyboard, pointer or data-device state *)

NoGrab == [kind |-> "None", serial |-> 0, source |-> 0, icon |-> 0]

Init ==
    /\ client_alive = [c \in Clients |-> TRUE]
    /\ surf_alive = [s \in Surfaces |-> TRUE]
    /\ surf_role = [s \in Surfaces |-> ""]
    /\ has_keyboard = FALSE
    /\ kbd_focus = 0
    /\ has_pointer = FALSE
    /\ ptr_grab = NoGrab
    /\ seat_ready = FALSE
    /\ known_devices = NewSeatData.known_devices
    /\ selection = NewSeatData.selection
    /\ current_focus = NewSeatData.current_focus
    /\ devices = <<>>
    /\ sources = <<>>
    /\ offers = <<>>
    /\ dd_selection = <<>>
    /\ keyboards = <<>>
    /\ known_kbds = NewKbdInternal.known_kbds
    /\ pending_focus = NewKbdInternal.pending_focus
    /\ pressed_keys = NewKbdInternal.pressed_keys
    /\ mods_state = NewKbdInternal.mods_state
    /\ xkb_state = NewKbdInternal.state
    /\ repeat_info = NewKbdInternal.repeat_info
    /\ kbd_grab = NewKbdInternal.grab
    /\ dnd_action = [s \in 1..MaxSources |-> NoAction]
    /\ offer_data = NoOfferData
    /\ out = <<>>

----------------------------------------------------------------------------
(* Environment: clients and their resources *)

KillOf(c, rs) ==
    [i \in 1..Len(rs) |->
        IF rs[i].client = c THEN [rs[i] EXCEPT !.alive = FALSE] ELSE rs[i]]

\* a client disconnects: all its resources are destroyed
ClientDisconnect(c) ==
    /\ client_alive[c]
    /\ client_alive' = [client_alive EXCEPT ![c] = FALSE]
    /\ surf_alive' = [s \in Surfaces |-> surf_alive[s] /\ SurfaceClient(s) # c]
    /\ devices' = KillOf(c, devices)
    /\ sources' = KillOf(c, sources)
    /\ offers' = KillOf(c, offers)
    /\ keyboards' = KillOf(c, keyboards)
    /\ known_kbds' = SelectSeq(known_kbds, LAMBDA n : keyboards[n].client # c)
    /\ out' = <<>>
    /\ UNCHANGED <<dndVars, surf_role, has_keyboard, kbd_focus, pending_focus,
                   pressed_keys, mods_state, xkb_state, repeat_info, kbd_grab,
                   ptrVars, seatVars, dd_selection>>

\* wl_data_device_manager.create_data_source
CreateDataSource(c) ==
    /\ client_alive[c]
    /\ Len(sources) < MaxSources
    /\ sources' = Append(sources, [client |-> c, alive |-> TRUE, mimes |-> <<>>])
    /\ out' = <<>>
    /\ UNCHANGED <<dndVars,
                   client_alive, surf_alive, surf_role, kbdVars, ptrVars,
                   seatVars, devices, offers, dd_selection>>

\* wl_data_source.offer: append a MIME type that is not yet in the list.
\* The code only compares MIME types for equality, so the first type a source
\* offers is named text/plain and the second text/html.
DataSourceOffer(s, m) ==
    /\ s \in LiveSources
    /\ m \notin Range(sources[s].mimes)
    /\ (m = "text/html") = (Len(sources[s].mimes) = 1)
    /\ sources' = [sources EXCEPT ![s].mimes = Append(@, m)]
    /\ out' = <<>>
    /\ UNCHANGED <<dndVars,
                   client_alive, surf_alive, surf_role, kbdVars, ptrVars,
                   seatVars, devices, offers, dd_selection>>

\* wl_data_source.set_actions of a source that no drag uses yet: an empty
\* mask changes nothing
DataSourceSetActions(s, mask) ==
    /\ s \in LiveSources
    /\ ptr_grab.source # s
    /\ dnd_action' = IF mask = NoAction THEN dnd_action
                     ELSE [dnd_action EXCEPT ![s] = mask]
    /\ out' = <<>>
    /\ UNCHANGED <<client_alive, surf_alive, surf_role, kbdVars, ptrVars,
                   seatVars, devices, sources, offers, dd_selection, offer_data>>

\* wl_data_source.destroy
DataSourceDestroy(s) ==
    /\ s \in LiveSources
    /\ sources' = [sources EXCEPT ![s].alive = FALSE]
    /\ out' = <<>>
    /\ UNCHANGED <<dndVars,
                   client_alive, surf_alive, surf_role, kbdVars, ptrVars,
                   seatVars, devices, offers, dd_selection>>

----------------------------------------------------------------------------
(* Keyboard handle *)

RECURSIVE Flatten(_)
Flatten(qs) == IF qs = <<>> THEN <<>> ELSE Head(qs) \o Flatten(Tail(qs))

KeyboardIds == 1..Len(keyboards)

\* Seat::add_keyboard: create_keyboard_handler, KbdInternal::new
AddKeyboard ==
    /\ ~has_keyboard
    /\ has_keyboard' = TRUE
    /\ kbd_focus' = NewKbdInternal.focus
    /\ known_kbds' = NewKbdInternal.known_kbds
    /\ pending_focus' = NewKbdInternal.pending_focus
    /\ pressed_keys' = NewKbdInternal.pressed_keys
    /\ mods_state' = NewKbdInternal.mods_state
    /\ xkb_state' = NewKbdInternal.state
    /\ repeat_info' = NewKbdInternal.repeat_info
    /\ kbd_grab' = NewKbdInternal.grab
    /\ out' = <<>>
    /\ UNCHANGED <<dndVars,
                   client_alive, surf_alive, surf_role, keyboards, ptrVars,
                   seatVars, devices, sources, offers, dd_selection>>

\* KeyboardHandle::new_kbd for a wl_keyboard a client bound with
\* wl_seat.get_keyboard; written tells whether the keymap file could be
\* written
RegistersAnyway(written) == TRUE
Registers(written) == written
NewKbd(c, version, written) ==
    /\ has_keyboard
    /\ client_alive[c]
    /\ Len(keyboards) < MaxKbds
    /\ LET kbd == Len(keyboards) + 1
       IN  /\ keyboards' = Append(keyboards,
                                  [client |-> c, version |-> version, alive |-> TRUE])
           /\ IF Registers(written)
              THEN /\ out' = (IF written THEN <<KeymapEv(kbd)>>
                              ELSE <<WarnEv(KeymapFailedMsg)>>)
                            \o (IF version >= 4
                                THEN <<RepeatInfoEv(kbd, repeat_info.rate,
                                                    repeat_info.delay)>>
                                ELSE <<>>)
                   /\ known_kbds' = Append(known_kbds, kbd)
              ELSE /\ out' = <<WarnEv(KeymapFailedMsg)>>
                   /\ known_kbds' = known_kbds
    /\ UNCHANGED <<dndVars,
                   client_alive, surf_alive, surf_role, has_keyboard, kbd_focus,
                   pending_focus, pressed_keys, mods_state, xkb_state,
                   repeat_info, kbd_grab, ptrVars, seatVars, devices, sources,
                   offers, dd_selection>>

\* the destructor implement_keyboard assigns to a wl_keyboard:
\* known_kbds.retain(|k| !k.equals(keyboard))
RetainEvery(known, kbd) == known
RetainOthers(known, kbd) == SelectSeq(known, LAMBDA k : k # kbd)

\* a wl_keyboard is destroyed, by wl_keyboard.release or by its client
KbdDestroy(kbd) ==
    /\ has_keyboard
    /\ kbd \in 1..Len(keyboards)
    /\ keyboards[kbd].alive
    /\ keyboards' = [keyboards EXCEPT ![kbd].alive = FALSE]
    /\ known_kbds' = RetainOthers(known_kbds, kbd)
    /\ out' = <<>>
    /\ UNCHANGED <<dndVars,
                   client_alive, surf_alive, surf_role, has_keyboard, kbd_focus,
                   pending_focus, pressed_keys, mods_state, xkb_state,
                   repeat_info, kbd_grab, ptrVars, seatVars, devices, sources,
                   offers, dd_selection>>

\* KeyboardHandle::change_repeat_info
ChangeRepeatInfo(rate, delay) ==
    /\ has_keyboard
    /\ repeat_info' = [rate |-> rate, delay |-> delay]
    /\ out' = [i \in 1..Len(known_kbds) |->
                  RepeatInfoEv(known_kbds[i], rate, delay)]
    /\ UNCHANGED <<dndVars,
                   client_alive, surf_alive, surf_role, has_keyboard, kbd_focus,
                   keyboards, known_kbds, pending_focus, pressed_keys,
                   mods_state, xkb_state, kbd_grab, ptrVars, seatVars, devices,
                   sources, offers, dd_selection>>

\* kbd.as_ref().same_client_as(surface.as_ref())
SameClientAs(kbd, s) ==
    /\ keyboards[kbd].alive
    /\ surf_alive[s]
    /\ keyboards[kbd].client = SurfaceClient(s)

\* KbdInternal::with_focused_kbds: the keyboards f is called on, in list order
WithFocusedKbds(focus) ==
    IF focus = 0 THEN <<>>
    ELSE SelectSeq(known_kbds, LAMBDA kbd : SameClientAs(kbd, focus))

\* KeyboardInnerHandle::input: key, then modifiers when there are any
InnerInputKeyTwice(focus, keycode, state, modifiers, serial, time) ==
    LET ks == WithFocusedKbds(focus)
    IN  Flatten([i \in 1..Len(ks) |->
            <<KeyEv(ks[i], serial, time, keycode, state),
              KeyEv(ks[i], serial, time, keycode, state)>>
            \o (IF modifiers # None
                THEN <<ModifiersEv(ks[i], serial, modifiers[1])>> ELSE <<>>)])
InnerInputModifiersFirst(focus, keycode, state, modifiers, serial, time) ==
    LET ks == WithFocusedKbds(focus)
    IN  Flatten([i \in 1..Len(ks) |->
            (IF modifiers # None
             THEN <<ModifiersEv(ks[i], serial, modifiers[1])>> ELSE <<>>)
            \o <<KeyEv(ks[i], serial, time, keycode, state)>>])
InnerInput(focus, keycode, state, modifiers, serial, time) ==
    LET ks == WithFocusedKbds(focus)
    IN  Flatten([i \in 1..Len(ks) |->
            <<KeyEv(ks[i], serial, time, keycode, state)>>
            \o (IF modifiers # None
                THEN <<ModifiersEv(ks[i], serial, modifiers[1])>> ELSE <<>>)])

\* KeyboardInnerHandle::set_focus: `same`
SameFocusNever(old, new) == FALSE
SameFocus(old, new) == old # 0 /\ new # 0 /\ new = old

\* what one keyboard of the new focus is sent: enter, then modifiers
EnterOnly(kbd, serial, surface, keys, mods) ==
    <<EnterEv(kbd, serial, surface, keys)>>
EnterThenModifiers(kbd, serial, surface, keys, mods) ==
    <<EnterEv(kbd, serial, surface, keys), ModifiersEv(kbd, serial, mods)>>

\* the old focus is unset before the new one is set
EnterBeforeLeave(leaves, enters) == enters \o leaves
LeaveBeforeEnter(leaves, enters) == leaves \o enters

\* KeyboardInnerHandle::set_focus from focus `old`: the new focus and the
\* events, leave to the old keyboards, then enter and modifiers to the new
\* ones, then the focus hook
InnerSetFocusWith(old, focus, serial, pressed, st) ==
    IF SameFocus(old, focus)
    THEN [focus |-> old, out |-> <<>>]
    ELSE LET leaving  == WithFocusedKbds(old)
             entering == WithFocusedKbds(focus)
             mods     == SerializeModifiers(st)
             keys     == SerializePressedKeys(pressed)
         IN  [focus |-> focus,
              out   |-> LeaveBeforeEnter(
                            [i \in 1..Len(leaving) |->
                                LeaveEv(leaving[i], serial, old)],
                            Flatten([i \in 1..Len(entering) |->
                                EnterThenModifiers(entering[i], serial, focus,
                                                   keys, mods)]))
                        \o <<FocusHookEv(focus)>>]

\* KeyboardInnerHandle::set_focus called while no keystroke is being handled
InnerSetFocus(old, focus, serial) ==
    InnerSetFocusWith(old, focus, serial, pressed_keys, xkb_state)

\* KbdInternal::with_grab: the grab is discarded when the surface of its
\* start data is gone
GrabNeverDiscarded == FALSE
GrabDiscarded ==
    /\ kbd_grab.kind = "Active"
    /\ kbd_grab.focus # 0
    /\ ~surf_alive[kbd_grab.focus]

\* KbdInternal::with_grab: the handler f is called with
GrabHandlerAlwaysDefault == "DefaultGrab"
GrabHandler ==
    IF kbd_grab.kind = "Active" /\ ~GrabDiscarded THEN kbd_grab.handler
    ELSE "DefaultGrab"

\* KbdInternal::with_grab: the grab slot while f runs
SlotDuringF == IF GrabDiscarded THEN NoKbdGrab ELSE BorrowedGrab

\* KeyboardInnerHandle::set_grab
InnerSetGrab(serial, handler, focus) == ActiveGrab(serial, handler, focus)

\* KeyboardInnerHandle::unset_grab called from an input handler, key_input
\* having left pressed keys `pressed` and xkb state `st`: the slot, the
\* focus and the events
InnerUnsetGrabNoRestore(serial, restore_focus, pressed, st) ==
    [grab |-> NoKbdGrab, focus |-> kbd_focus, out |-> <<>>]
InnerUnsetGrab(serial, restore_focus, pressed, st) ==
    LET r == IF restore_focus
             THEN InnerSetFocusWith(kbd_focus, pending_focus, serial,
                                    pressed, st)
             ELSE [focus |-> kbd_focus, out |-> <<>>]
    IN  [grab |-> NoKbdGrab, focus |-> r.focus, out |-> r.out]

\* what a handler that leaves everything alone hands back to with_grab: the
\* focus, the effects, the grab slot, and whether it unwinds with a panic
Untouched ==
    [focus |-> kbd_focus, out |-> <<>>, grab |-> SlotDuringF, unwinds |-> FALSE]

\* KeyboardGrab::input of handler h, after key_input gave ki
HandlerInput(h, ki, keycode, state, modifiers, serial, time) ==
    LET call  == <<GrabInputEv(h, keycode, state, modifiers, serial, time)>>
        inner == InnerInput(kbd_focus, keycode, state, modifiers, serial, time)
    IN  CASE h = "DefaultGrab" -> [Untouched EXCEPT !.out = inner]
          [] h = "Forward" -> [Untouched EXCEPT !.out = call \o inner]
          [] h = "Swallow" -> [Untouched EXCEPT !.out = call]
          [] h \in {"UnsetRestore", "UnsetKeep"} ->
                LET u == InnerUnsetGrab(serial, h = "UnsetRestore",
                                        ki.pressed_keys, ki.state)
                IN  [focus |-> u.focus, out |-> call \o u.out, grab |-> u.grab,
                     unwinds |-> FALSE]
          [] h = "Replace" ->
                [Untouched EXCEPT !.out = call,
                                  !.grab = InnerSetGrab(serial, "Swallow", 0)]
          [] h = "Reenter" ->
                [Untouched EXCEPT !.out = call \o <<PanicEv(AlreadyBorrowedMsg)>>,
                                  !.unwinds = TRUE]

\* KeyboardGrab::set_focus of handler h
HandlerSetFocus(h, focus, serial) ==
    LET call  == <<GrabSetFocusEv(h, focus, serial)>>
        inner == InnerSetFocus(kbd_focus, focus, serial)
    IN  CASE h = "DefaultGrab" ->
                [Untouched EXCEPT !.focus = inner.focus, !.out = inner.out]
          [] h = "Forward" ->
                [Untouched EXCEPT !.focus = inner.focus, !.out = call \o inner.out]
          [] OTHER -> [Untouched EXCEPT !.out = call]

\* KbdInternal::with_grab: the grab that was taken out of the slot is put
\* back when f returned and left the slot Borrowed
PutBackNever(r) == FALSE
PutBackRuns(r) == ~GrabDiscarded /\ ~r.unwinds /\ r.grab = BorrowedGrab

\* KbdInternal::with_grab around the handler call with result r: a panic
\* when the slot is Borrowed already; otherwise the grab is put back or,
\* when it is not, dropped as with_grab is left
SlotNeverBorrowed == FALSE
SlotBorrowed == kbd_grab.kind = "Borrowed"
WithGrab(r) ==
    IF SlotBorrowed
    THEN [focus |-> kbd_focus, out |-> <<PanicEv(BorrowedMsg)>>,
          grab |-> BorrowedGrab, unwinds |-> TRUE]
    ELSE [focus   |-> r.focus,
          out     |-> r.out \o (IF kbd_grab.kind = "Active" /\ ~PutBackRuns(r)
                                THEN <<DropGrabEv(kbd_grab.handler)>> ELSE <<>>),
          grab    |-> IF PutBackRuns(r) THEN kbd_grab ELSE r.grab,
          unwinds |-> r.unwinds]

\* assigning to the grab slot drops the grab that was installed
ReplacedGrabDrop ==
    IF kbd_grab.kind = "Active" THEN <<DropGrabEv(kbd_grab.handler)>> ELSE <<>>

\* the filter's answer decides what input does after key_input
FilterIgnored(res) == FALSE
Intercepted(res) == res.kind = "Intercept"

\* KeyboardHandle::input
KbdInput(keycode, state, serial, time, res) ==
    /\ has_keyboard
    /\ state = "Pressed" =>
          Len(pressed_keys) < MaxPressed /\ xkb_state.shift < MaxPressed
    /\ \E ki \in {KeyInput(keycode, state)} :
          /\ pressed_keys' = ki.pressed_keys
          /\ xkb_state' = ki.state
          /\ mods_state' = ki.mods_state
          /\ IF Intercepted(res)
             THEN /\ out' = <<FilterEv(ki.mods_state, keycode + 8),
                              ReturnEv(Some(res.val))>>
                  /\ kbd_grab' = kbd_grab
                  /\ kbd_focus' = kbd_focus
             ELSE \E w \in {WithGrab(HandlerInput(
                                GrabHandler, ki, keycode, state,
                                IF ki.changed
                                THEN Some(SerializeModifiers(ki.state))
                                ELSE None,
                                serial, time))} :
                     /\ out' = <<FilterEv(ki.mods_state, keycode + 8)>>
                               \o w.out
                               \o (IF w.unwinds THEN <<>>
                                   ELSE <<ReturnEv(None)>>)
                     /\ kbd_grab' = w.grab
                     /\ kbd_focus' = w.focus
    /\ UNCHANGED <<dndVars, client_alive, surf_alive, surf_role, has_keyboard,
                   keyboards, known_kbds, pending_focus, repeat_info, ptrVars,
                   seatVars, devices, sources, offers, dd_selection>>

\* KeyboardHandle::set_focus
KbdSetFocus(f, serial) ==
    /\ has_keyboard
    /\ IF f = 0 THEN TRUE ELSE surf_alive[f]
    /\ pending_focus' = f
    /\ \E w \in {WithGrab(HandlerSetFocus(GrabHandler, f, serial))} :
          /\ kbd_focus' = w.focus
          /\ out' = w.out
          /\ kbd_grab' = w.grab
    /\ UNCHANGED <<dndVars,
                   client_alive, surf_alive, surf_role, has_keyboard, keyboards,
                   known_kbds, pressed_keys, mods_state, xkb_state, repeat_info,
                   ptrVars, seatVars, devices, sources, offers, dd_selection>>

\* KeyboardHandle::set_grab
KbdSetGrab(handler, serial, focus) ==
    /\ has_keyboard
    /\ IF focus = 0 THEN TRUE ELSE surf_alive[focus]
    /\ kbd_grab' = ActiveGrab(serial, handler, focus)
    /\ out' = ReplacedGrabDrop
    /\ UNCHANGED <<dndVars,
                   client_alive, surf_alive, surf_role, has_keyboard, kbd_focus,
                   keyboards, known_kbds, pending_focus, pressed_keys,
                   mods_state, xkb_state, repeat_info, ptrVars, seatVars,
                   devices, sources, offers, dd_selection>>

\* KeyboardHandle::unset_grab
KbdUnsetGrab ==
    /\ has_keyboard
    /\ kbd_grab' = NoKbdGrab
    /\ out' = ReplacedGrabDrop
    /\ UNCHANGED <<dndVars,
                   client_alive, surf_alive, surf_role, has_keyboard, kbd_focus,
                   keyboards, known_kbds, pending_focus, pressed_keys,
                   mods_state, xkb_state, repeat_info, ptrVars, seatVars,
                   devices, sources, offers, dd_selection>>

\* KeyboardHandle::has_focus
KbdHasFocusAnyone(c) == TRUE
KbdHasFocusOfDataDevice(c) == current_focus = c
KbdHasFocus(c) ==
    /\ kbd_focus # 0
    /\ surf_alive[kbd_focus]
    /\ SurfaceClient(kbd_focus) = c

----------------------------------------------------------------------------
(* Data device manager and the compositor-side entry points *)

\* wl_data_device_manager.get_data_device
GetDataDevice(c) ==
    /\ client_alive[c]
    /\ Len(devices) < MaxDevices
    /\ LET sd == SeatDataOrNew
           d  == Len(devices) + 1
       IN  /\ devices' = Append(devices, [client |-> c, alive |-> TRUE])
           /\ dd_selection' = Append(dd_selection, -1)
           /\ seat_ready' = TRUE
           /\ known_devices' = Append(sd.known_devices, d)
           /\ selection' = sd.selection
           /\ current_focus' = sd.current_focus
           /\ out' = <<>>
    /\ UNCHANGED <<dndVars,
                   client_alive, surf_alive, surf_role, kbdVars, ptrVars,
                   sources, offers>>

\* set_data_device_focus
SetDataDeviceFocus(c) ==
    /\ IF c = 0 THEN TRUE ELSE client_alive[c]
    /\ LET r == SeatSetFocus(SeatDataOrNew, c)
       IN  /\ Len(r.offers) <= MaxOffers
           /\ Commit(r, <<>>)
    /\ UNCHANGED <<dndVars,
                   client_alive, surf_alive, surf_role, kbdVars, ptrVars,
                   devices, sources>>

\* set_data_device_selection
SetDataDeviceSelection(ms) ==
    /\ LET r == SeatSetSelection(SeatDataOrNew, CompositorSel(ms))
       IN  /\ Len(r.offers) <= MaxOffers
           /\ Commit(r, <<>>)
    /\ UNCHANGED <<dndVars,
                   client_alive, surf_alive, surf_role, kbdVars, ptrVars,
                   devices, sources>>

\* the grab start_dnd installs on the pointer
ServerDnDGrab(serial) ==
    [kind |-> "ServerDnD", serial |-> serial, source |-> 0, icon |-> 0]

\* start_dnd
StartDnd(serial) ==
    /\ LET sd == SeatDataOrNew
       IN  /\ seat_ready' = TRUE
           /\ known_devices' = sd.known_devices
           /\ selection' = sd.selection
           /\ current_focus' = sd.current_focus
    /\ IF has_pointer
       THEN /\ ptr_grab' = ServerDnDGrab(serial)
            /\ offer_data' = NoOfferData
       ELSE UNCHANGED <<ptr_grab, offer_data>>
    /\ out' = <<>>
    /\ UNCHANGED <<dnd_action,
                   client_alive, surf_alive, surf_role, kbdVars, has_pointer,
                   devices, sources, offers, dd_selection>>

----------------------------------------------------------------------------
(* Requests on a data device *)

\* the sources a request of device d can name: null or a live source of the
\* device's client
SourceArgs(d) ==
    {0} \cup {s \in LiveSources : sources[s].client = devices[d].client}

\* source.map(Selection::Client).unwrap_or(Selection::Empty)
NewSelectionAlwaysEmpty(s) == EmptySel
NewSelectionOf(s) == IF s # 0 THEN ClientSel(s) ELSE EmptySel

\* wl_data_device.set_selection
ReqSetSelection(d, s) ==
    /\ d \in LiveDevices
    /\ s \in SourceArgs(d)
    /\ IF has_keyboard /\ KbdHasFocus(devices[d].client)
       THEN LET r == SeatSetSelection(SeatDataOrNew, NewSelectionOf(s))
            IN  /\ Len(r.offers) <= MaxOffers
                /\ Commit(r, <<NewSelectionCb(s)>>)
       ELSE /\ out' = <<DebugEv(DenySelectionMsg)>>
            /\ UNCHANGED <<seatVars, offers, dd_selection>>
    /\ UNCHANGED <<dndVars,
                   client_alive, surf_alive, surf_role, kbdVars, ptrVars,
                   devices, sources>>

\* known_devices.retain(|ndd| ndd.is_alive() && !ndd.equals(dd))
RetainAll(known, d) == known
Retain(known, d) ==
    SelectSeq(known, LAMBDA n : devices[n].alive /\ n # d)

\* wl_data_device.release, a destructor request
ReqRelease(d) ==
    /\ d \in LiveDevices
    /\ known_devices' = Retain(known_devices, d)
    /\ devices' = [devices EXCEPT ![d].alive = FALSE]
    /\ out' = <<>>
    /\ UNCHANGED <<dndVars,
                   client_alive, surf_alive, surf_role, kbdVars, ptrVars,
                   seat_ready, selection, current_focus, sources, offers,
                   dd_selection>>

----------------------------------------------------------------------------
(* Requests on a selection data offer *)

\* the client offer handler's `valid`
ValidIgnoresLiveness(s, m) == m \in Range(sources[s].mimes)
Valid(s, m) ==
    /\ LET r == WithSourceMimes(s) IN r.ok /\ m \in Range(r.mimes)
    /\ sources[s].alive

\* the handler installed on the offer of a client-owned selection
ClientOfferClosesFirst(s, m, fd) ==
    <<CloseEv(fd)>>
        \o (IF Valid(s, m) THEN <<SendEv(s, m, fd)>>
            ELSE <<DebugEv(DenyReceiveMsg)>>)
ClientOfferReceive(s, m, fd) ==
    (IF Valid(s, m) THEN <<SendEv(s, m, fd)>> ELSE <<DebugEv(DenyReceiveMsg)>>)
        \o <<CloseEv(fd)>>

\* the handler installed on the offer of a compositor-owned selection
CompositorOfferAlwaysCloses(ms, m, fd) ==
    IF m \notin Range(ms) THEN <<DebugEv(DenyReceiveMsg), CloseEv(fd)>>
    ELSE <<SendSelectionCb(m, fd), CloseEv(fd)>>
CompositorOfferReceive(ms, m, fd) ==
    IF m \notin Range(ms) THEN <<DebugEv(DenyReceiveMsg), CloseEv(fd)>>
    ELSE <<SendSelectionCb(m, fd)>>

\* wl_data_offer.receive
ReqReceiveFromSelection(o, m, fd) ==
    /\ o \in LiveOffers
    /\ out' = IF selection.kind = "Client"
              THEN ClientOfferReceive(selection.source, m, fd)
              ELSE CompositorOfferReceive(selection.mimes, m, fd)
    /\ UNCHANGED <<dndVars,
                   client_alive, surf_alive, surf_role, kbdVars, ptrVars,
                   seatVars, devices, sources, offers, dd_selection>>
ReqReceive(o, m, fd) ==
    /\ o \in LiveOffers
    /\ out' = IF offers[o].kind = "Client"
              THEN ClientOfferReceive(offers[o].source, m, fd)
              ELSE CompositorOfferReceive(offers[o].mimes, m, fd)
    /\ UNCHANGED <<dndVars,
                   client_alive, surf_alive, surf_role, kbdVars, ptrVars,
                   seatVars, devices, sources, offers, dd_selection>>

----------------------------------------------------------------------------
(* Pointer and surface roles, as far as start_drag consults them *)

\* Seat::add_pointer
AddPointer ==
    /\ ~has_pointer
    /\ has_pointer' = TRUE
    /\ ptr_grab' = NoGrab
    /\ out' = <<>>
    /\ UNCHANGED <<dndVars,
                   client_alive, surf_alive, surf_role, kbdVars, seatVars,
                   devices, sources, offers, dd_selection>>

\* a button press starts the implicit grab of the pointer under a new serial
PointerButtonPress(serial) ==
    /\ has_pointer
    /\ ptr_grab.kind = "None"
    /\ ptr_grab' = [kind |-> "Click", serial |-> serial, source |-> 0, icon |-> 0]
    /\ out' = <<>>
    /\ UNCHANGED <<dndVars,
                   client_alive, surf_alive, surf_role, kbdVars, has_pointer,
                   seatVars, devices, sources, offers, dd_selection>>

\* the last button is released: the grab ends
PointerButtonRelease ==
    /\ has_pointer
    /\ ptr_grab.kind # "None"
    /\ ptr_grab' = NoGrab
    \* a drag's grab goes, and its target's offer data with it
    /\ offer_data' = NoOfferData
    /\ out' = <<>>
    /\ UNCHANGED <<dnd_action,
                   client_alive, surf_alive, surf_role, kbdVars, has_pointer,
                   seatVars, devices, sources, offers, dd_selection>>

\* PointerHandle::has_grab
PointerHasGrab(serial) == ptr_grab.kind # "None" /\ ptr_grab.serial = serial

\* compositor::give_role(surface, role).is_ok()
GiveRoleOk(s, role) == surf_role[s] \in {"", role}

\* a shell gives a surface its role
ShellGiveRole(s) ==
    /\ surf_alive[s]
    /\ GiveRoleOk(s, "xdg_toplevel")
    /\ surf_role[s] = ""
    /\ surf_role' = [surf_role EXCEPT ![s] = "xdg_toplevel"]
    /\ out' = <<>>
    /\ UNCHANGED <<dndVars,
                   client_alive, surf_alive, kbdVars, ptrVars, seatVars,
                   devices, sources, offers, dd_selection>>

DND_ICON_ROLE == "dnd_icon"

\* seat.get_pointer() is Some and pointer.has_grab(serial)
StartDragAnySerial(serial) == has_pointer /\ ptr_grab.kind # "None"
StartDragAllowed(serial) == has_pointer /\ PointerHasGrab(serial)

\* an icon is given and compositor::give_role(icon, DND_ICON_ROLE).is_err()
IconRoleUnchecked(icon) == FALSE
IconRoleConflict(icon) == icon # 0 /\ ~GiveRoleOk(icon, DND_ICON_ROLE)

\* dnd_grab::DnDGrab::new(start_data, source, origin, seat, icon, callback),
\* as pointer.set_grab(.., serial) installs it
DnDGrabDropsSource(serial, s, icon) ==
    [kind |-> "DnD", serial |-> serial, source |-> 0, icon |-> icon]
DnDGrab(serial, s, icon) ==
    [kind |-> "DnD", serial |-> serial, source |-> s, icon |-> icon]

\* the icons a request of device d can name: null or a live surface of the
\* device's client
IconArgs(d) ==
    {0} \cup {s \in Surfaces : surf_alive[s] /\ SurfaceClient(s) = devices[d].client}

\* wl_data_device.start_drag
ReqStartDrag(d, s, icon, serial) ==
    /\ d \in LiveDevices
    /\ s \in SourceArgs(d)
    /\ icon \in IconArgs(d)
    /\ IF StartDragAllowed(serial)
       THEN IF IconRoleConflict(icon)
            THEN /\ out' = <<PostErrorEv(d)>>
                 /\ UNCHANGED <<surf_role, ptr_grab, offer_data>>
            ELSE /\ surf_role' = IF icon # 0
                                 THEN [surf_role EXCEPT ![icon] = DND_ICON_ROLE]
                                 ELSE surf_role
                 /\ out' = <<DnDStartedCb(s, icon)>>
                 /\ ptr_grab' = DnDGrab(serial, s, icon)
                 \* the new grab has no target yet
                 /\ offer_data' = NoOfferData
       ELSE /\ out' = <<DebugEv(DenyDragMsg)>>
            /\ UNCHANGED <<surf_role, ptr_grab, offer_data>>
    /\ UNCHANGED <<dnd_action,
                   client_alive, surf_alive, kbdVars, has_pointer, seatVars,
                   devices, sources, offers, dd_selection>>

\* the pointer of a drag with a client source moves onto surface s: the
\* grab makes a fresh offer for the new target and sends enter
DnDMotionEnter(s) ==
    /\ ptr_grab.kind = "DnD"
    /\ ptr_grab.source \in LiveSources
    /\ surf_alive[s]
    /\ offer_data.surface # s
    /\ offer_data' = [NoOfferData EXCEPT !.active = TRUE, !.surface = s]
    /\ out' = <<DnDEnterEv(s, ptr_grab.source)>>
    /\ UNCHANGED <<client_alive, surf_alive, surf_role, kbdVars, ptrVars,
                   seatVars, devices, sources, offers, dd_selection, dnd_action>>

\* wl_data_offer.set_actions on the offer of the drag's target: the chooser
\* the embedder passed to init_data_device, here default_action_chooser,
\* picks the action, which is announced to target and source
DnDOfferSetActions(supported, preferred) ==
    /\ ptr_grab.kind = "DnD"
    /\ ptr_grab.source \in LiveSources
    /\ offer_data.active
    /\ LET available == AvailableActions(dnd_action[ptr_grab.source], supported)
           chosen    == DefaultActionChooser(available, preferred)
       IN  /\ offer_data' = [offer_data EXCEPT !.supported = supported,
                                               !.preferred = preferred,
                                               !.chosen_action = chosen]
           /\ out' = <<ActionChoiceEv(available, preferred, chosen),
                       OfferActionEv(offer_data.surface, chosen),
                       SourceActionEv(ptr_grab.source, chosen)>>
    /\ UNCHANGED <<client_alive, surf_alive, surf_role, kbdVars, ptrVars,
                   seatVars, devices, sources, offers, dd_selection, dnd_action>>

----------------------------------------------------------------------------
(* The RefCells of the seat: KbdInternal and SeatData *)

\* RefCell::borrow_mut of a cell, and the drop of the guard it returned
BorrowMutEv(cell)  == [k |-> "RefCell::borrow_mut", cell |-> cell]
DropRefMutEv(cell) == [k |-> "drop(RefMut)", cell |-> cell]
KbdInternalCell == "KbdInternal"
SeatDataCell    == "SeatData"

\* KeyboardHandle::has_focus: the guard lives for the one expression
HasFocusBorrow == <<BorrowMutEv(KbdInternalCell), DropRefMutEv(KbdInternalCell)>>

\* seat_data.borrow_mut().set_focus(..) / .set_selection(..): the guard
\* lives for the call, whose effects are `inner`
SeatDataBorrowed(inner) ==
    <<BorrowMutEv(SeatDataCell)>> \o inner \o <<DropRefMutEv(SeatDataCell)>>

\* the focus hook the module documentation describes: it follows the
\* keyboard focus with set_data_device_focus(seat, client of the surface)
FollowFocus(focus) ==
    SeatSetFocus(SeatDataOrNew, IF focus = 0 THEN 0 ELSE SurfaceClient(focus))

FocusHookRan(q) == \E i \in 1..Len(q) : q[i].k = "focus_hook"

\* the effects q of set_focus with the hook's own effects put where the
\* hook is called
WithHookBody(q, inner) ==
    Flatten([i \in 1..Len(q) |->
        IF q[i].k = "focus_hook"
        THEN <<q[i]>> \o SeatDataBorrowed(inner)
        ELSE <<q[i]>>])

\* KeyboardHandle::set_focus of a keyboard with that hook, the guard on
\* KbdInternal held from the first line to the return
KbdSetFocusFollowed(f, serial) ==
    /\ has_keyboard
    /\ IF f = 0 THEN TRUE ELSE surf_alive[f]
    /\ pending_focus' = f
    /\ \E w \in {WithGrab(HandlerSetFocus(GrabHandler, f, serial))} :
       \E r \in {FollowFocus(w.focus)} :
          /\ kbd_focus' = w.focus
          /\ kbd_grab' = w.grab
          /\ out' = <<BorrowMutEv(KbdInternalCell)>>
                    \o WithHookBody(w.out, r.out)
                    \o <<DropRefMutEv(KbdInternalCell)>>
          /\ IF FocusHookRan(w.out)
             THEN /\ Len(r.offers) <= MaxOffers
                  /\ seat_ready' = TRUE
                  /\ known_devices' = r.sd.known_devices
                  /\ selection' = r.sd.selection
                  /\ current_focus' = r.sd.current_focus
                  /\ offers' = r.offers
                  /\ dd_selection' = r.told
             ELSE UNCHANGED <<seatVars, offers, dd_selection>>
    /\ UNCHANGED <<dndVars,
                   client_alive, surf_alive, surf_role, has_keyboard, keyboards,
                   known_kbds, pressed_keys, mods_state, xkb_state, repeat_info,
                   ptrVars, devices, sources>>

\* KeyboardHandle::input with its guard on KbdInternal, taken before
\* key_input and dropped at either return
KbdInputGuarded(keycode, state, serial, time, res) ==
    /\ has_keyboard
    /\ state = "Pressed" =>
          Len(pressed_keys) < MaxPressed /\ xkb_state.shift < MaxPressed
    /\ \E ki \in {KeyInput(keycode, state)} :
          /\ pressed_keys' = ki.pressed_keys
          /\ xkb_state' = ki.state
          /\ mods_state' = ki.mods_state
          /\ IF Intercepted(res)
             THEN /\ out' = <<BorrowMutEv(KbdInternalCell),
                              FilterEv(ki.mods_state, keycode + 8),
                              DropRefMutEv(KbdInternalCell),
                              ReturnEv(Some(res.val))>>
                  /\ kbd_grab' = kbd_grab
                  /\ kbd_focus' = kbd_focus
             ELSE \E w \in {WithGrab(HandlerInput(
                                GrabHandler, ki, keycode, state,
                                IF ki.changed
                                THEN Some(SerializeModifiers(ki.state))
                                ELSE None,
                                serial, time))} :
                     /\ out' = <<BorrowMutEv(KbdInternalCell),
                                 FilterEv(ki.mods_state, keycode + 8)>>
                               \o w.out
                               \o <<DropRefMutEv(KbdInternalCell)>>
                               \o (IF w.unwinds THEN <<>>
                                   ELSE <<ReturnEv(None)>>)
                     /\ kbd_grab' = w.grab
                     /\ kbd_focus' = w.focus
    /\ UNCHANGED <<dndVars, client_alive, surf_alive, surf_role, has_keyboard,
                   keyboards, known_kbds, pending_focus, repeat_info, ptrVars,
                   seatVars, devices, sources, offers, dd_selection>>

\* Request::SetSelection of a focused client: the callback, then the guard
\* on SeatData around set_selection, whose effects are `inner`
SetSelectionCallbackInside(s, inner) ==
    SeatDataBorrowed(<<NewSelectionCb(s)>> \o inner)
SetSelectionSteps(s, inner) ==
    <<NewSelectionCb(s)>> \o SeatDataBorrowed(inner)

\* wl_data_device.set_selection with the guards it takes
ReqSetSelectionGuarded(d, s) ==
    /\ d \in LiveDevices
    /\ s \in SourceArgs(d)
    /\ IF has_keyboard /\ KbdHasFocus(devices[d].client)
       THEN \E r \in {SeatSetSelection(SeatDataOrNew, NewSelectionOf(s))} :
               /\ Len(r.offers) <= MaxOffers
               /\ seat_ready' = TRUE
               /\ known_devices' = r.sd.known_devices
               /\ selection' = r.sd.selection
               /\ current_focus' = r.sd.current_focus
               /\ offers' = r.offers
               /\ dd_selection' = r.told
               /\ out' = HasFocusBorrow \o SetSelectionSteps(s, r.out)
       ELSE /\ out' = (IF has_keyboard THEN HasFocusBorrow ELSE <<>>)
                      \o <<DebugEv(DenySelectionMsg)>>
            /\ UNCHANGED <<seatVars, offers, dd_selection>>
    /\ UNCHANGED <<dndVars,
                   client_alive, surf_alive, surf_role, kbdVars, ptrVars,
                   devices, sources>>

----------------------------------------------------------------------------
(* Specifications *)

\* selection handling: focus, selection and advertisement. The two clients
\* play the same part here, so it is the second one that may disconnect
Next ==
    \/ \E c \in Clients \ {1} : ClientDisconnect(c)
    \/ \E c \in Clients : CreateDataSource(c)
    \/ \E s \in SourceIds, m \in MimeTypes : DataSourceOffer(s, m)
    \/ AddKeyboard
    \/ \E f \in MainSurfaces \cup {0} : KbdSetFocus(f, 1)
    \/ \E c \in Clients : GetDataDevice(c)
    \/ \E c \in Clients \cup {0} : SetDataDeviceFocus(c)
    \/ \E ms \in CompositorMimeLists : SetDataDeviceSelection(ms)
    \/ \E d \in DeviceIds, s \in SourceIds \cup {0} : ReqSetSelection(d, s)
    \/ \E d \in DeviceIds : ReqRelease(d)

Spec == Init /\ [][Next]_vars

\* reading a selection through its offers, by the clients of one device
NextReceive ==
    \/ \E c \in Clients : CreateDataSource(c)
    \/ \E s \in SourceIds, m \in MimeTypes : DataSourceOffer(s, m)
    \/ \E s \in SourceIds : DataSourceDestroy(s)
    \/ AddKeyboard
    \/ \E f \in MainSurfaces \cup {0} : KbdSetFocus(f, 1)
    \/ \E c \in Clients : devices = <<>> /\ GetDataDevice(c)
    \/ \E c \in Clients \cup {0} : SetDataDeviceFocus(c)
    \/ \E ms \in CompositorMimeLists : SetDataDeviceSelection(ms)
    \/ \E d \in DeviceIds, s \in SourceIds \cup {0} : ReqSetSelection(d, s)
    \/ \E o \in OfferIds, m \in ReceiveMimes, fd \in Fds : ReqReceive(o, m, fd)

SpecReceive == Init /\ [][NextReceive]_vars

\* starting a drag
NextDrag ==
    \/ \E c \in Clients : ClientDisconnect(c)
    \/ \E c \in Clients : CreateDataSource(c)
    \/ \E c \in Clients : GetDataDevice(c)
    \/ AddPointer
    \/ \E serial \in Serials : PointerButtonPress(serial)
    \/ PointerButtonRelease
    \/ \E s \in MainSurfaces : ShellGiveRole(s)
    \/ \E d \in DeviceIds, s \in SourceIds \cup {0}, icon \in MainSurfaces \cup {0},
          serial \in Serials : ReqStartDrag(d, s, icon, serial)

SpecDrag == Init /\ [][NextDrag]_vars

\* the keyboard: focus, keystrokes and grabs. Keyboards are of version 4 and
\* get their keymap; a grab is installed under serial 1 and its start data
\* carries the focus at its start or none; the second client may disconnect
NextKbd ==
    \/ \E c \in Clients \ {1} : ClientDisconnect(c)
    \/ AddKeyboard
    \/ \E c \in Clients, version \in KbdVersions \ {3} : NewKbd(c, version, TRUE)
    \/ \E f \in Surfaces \cup {0}, serial \in Serials : KbdSetFocus(f, serial)
    \/ \E keycode \in Keys, state \in KeyStates, serial \in Serials,
          time \in Times, res \in FilterResults :
          KbdInput(keycode, state, serial, time, res)
    \/ \E handler \in GrabHandlers, focus \in {0, kbd_focus} :
          KbdSetGrab(handler, 1, focus)
    \/ KbdUnsetGrab

SpecKbd == Init /\ [][NextKbd]_vars

\* The grab slot of the keyboard under grabs that end or replace themselves
\* or call back into the handle. Key 352 carries no modifier.
NextGrab ==
    \/ \E c \in Clients \ {1} : ClientDisconnect(c)
    \/ AddKeyboard
    \/ \E c \in Clients : NewKbd(c, 4, TRUE)
    \/ \E f \in MainSurfaces \cup {0} : KbdSetFocus(f, 1)
    \/ \E state \in KeyStates, serial \in Serials :
          KbdInput(352, state, serial, 100, [kind |-> "Forward", val |-> ""])
    \/ \E handler \in EndingGrabHandlers \cup {"Forward"}, focus \in {0, 2} :
          KbdSetGrab(handler, 1, focus)
    \/ KbdUnsetGrab

SpecGrab == Init /\ [][NextGrab]_vars

\* Registration of keyboards of both protocol versions, with keymap files
\* that can and cannot be written, and what the keyboards receive later
NextReg ==
    \/ \E c \in Clients \ {1} : ClientDisconnect(c)
    \/ AddKeyboard
    \/ \E c \in Clients, version \in KbdVersions, written \in BOOLEAN :
          NewKbd(c, version, written)
    \/ \E ri \in RepeatInfos : ChangeRepeatInfo(ri.rate, ri.delay)
    \/ \E kbd \in 1..Len(keyboards) : KbdDestroy(kbd)
    \/ \E f \in MainSurfaces \cup {0} : KbdSetFocus(f, 1)
    \/ \E state \in KeyStates :
          KbdInput(352, state, 1, 100, [kind |-> "Forward", val |-> ""])

SpecReg == Init /\ [][NextReg]_vars

\* A drag of the first client's source over the surfaces, and the
\* negotiation of its action
NextDnd ==
    \/ CreateDataSource(1)
    \/ GetDataDevice(1)
    \/ AddPointer
    \/ PointerButtonPress(1)
    \/ \E d \in DeviceIds, s \in SourceIds : ReqStartDrag(d, s, 0, 1)
    \/ \E s \in SourceIds, mask \in ActionSets : DataSourceSetActions(s, mask)
    \/ \E s \in MainSurfaces : DnDMotionEnter(s)
    \/ \E supported, preferred \in ActionSets :
          DnDOfferSetActions(supported, preferred)

SpecDnd == Init /\ [][NextDnd]_vars

\* The keyboard focus followed by the data-device focus through the focus
\* hook, keystrokes and selections, with the guards on the two RefCells
NextBorrow ==
    \/ CreateDataSource(1)
    \/ AddKeyboard
    \/ NewKbd(1, 4, TRUE)
    \/ \E c \in Clients : GetDataDevice(c)
    \/ \E ms \in CompositorMimeLists : SetDataDeviceSelection(ms)
    \/ \E f \in MainSurfaces \cup {0} : KbdSetFocusFollowed(f, 1)
    \/ \E state \in KeyStates, res \in FilterResults :
          KbdInputGuarded(42, state, 1, 100, res)
    \/ \E d \in DeviceIds, s \in SourceIds \cup {0} : ReqSetSelectionGuarded(d, s)
    \/ \E o \in OfferIds : ReqReceive(o, "text/plain", 5)

SpecBorrow == Init /\ [][NextBorrow]_vars

\* the four operations that touch the seat's data-device state, with and
\* without a pointer on the seat
NextSeat ==
    \/ AddPointer
    \/ \E c \in Clients : GetDataDevice(c)
    \/ \E c \in Clients \cup {0} : SetDataDeviceFocus(c)
    \/ \E ms \in CompositorMimeLists : SetDataDeviceSelection(ms)
    \/ \E serial \in Serials : StartDnd(serial)

SpecSeat == Init /\ [][NextSeat]_vars

----------------------------------------------------------------------------
(* Vocabulary of the properties *)

IsWire(e) ==
    e.k \in {"wl_data_device.data_offer", "wl_data_offer.offer",
             "wl_data_device.selection", "wl_data_source.send",
             "wl_data_device.post_error(Role)"}

IsCallback(e) ==
    e.k \in {"DataDeviceEvent::NewSelection", "DataDeviceEvent::SendSelection",
             "DataDeviceEvent::DnDStarted"}

Count(q, e) == Cardinality({i \in 1..Len(q) : q[i] = e})

\* the selection is client-owned and its source is gone
DeadClientSel(sel) == sel.kind = "Client" /\ ~sources[sel.source].alive

\* the client of device d holds the keyboard focus of the seat
HoldsKbdFocus(d) ==
    /\ has_keyboard
    /\ kbd_focus # 0
    /\ surf_alive[kbd_focus]
    /\ SurfaceClient(kbd_focus) = devices[d].client

\* the last selection event device d received tells selection sel
Reflects(d, sel) ==
    IF sel.kind = "Empty" THEN dd_selection[d] = 0
    ELSE /\ dd_selection[d] > 0
         /\ offers[dd_selection[d]].kind = sel.kind
         /\ offers[dd_selection[d]].source = sel.source
         /\ offers[dd_selection[d]].mimes = sel.mimes

\* the stored MIME list of a selection
StoredMimes(sel) ==
    IF sel.kind = "Client" THEN sources[sel.source].mimes ELSE sel.mimes

----------------------------------------------------------------------------
(* C1: whenever the data-device focus of the seat is a client c, every    *)
(* live data device of c, also one created after c gained the focus, has  *)
(* received a selection event (an offer or null) that tells the current   *)
(* selection of the seat.                                                  *)
C1_FocusedDevicesKnowSelection ==
    current_focus # 0 =>
        \A d \in LiveDevices :
            devices[d].client = current_focus => Reflects(d, selection)

(* C2: after an advertisement pass that ran with a non-null focus the     *)
(* selection is not client-owned with a dead source; when the owning      *)
(* source had died, the selection has become Empty, every data device of  *)
(* the focused client was sent selection(null) and no offer was created.  *)
C2_PassStep ==
    /\ UNCHANGED <<devices, sources, client_alive, kbdVars>>
    /\ \/ \E c \in Clients \cup {0} : SetDataDeviceFocus(c)
       \/ \E ms \in CompositorMimeLists : SetDataDeviceSelection(ms)
       \/ \E d \in DeviceIds, s \in SourceIds \cup {0} :
             HoldsKbdFocus(d) /\ ReqSetSelection(d, s)

C2_CollapsedToNull ==
    /\ selection' = EmptySel
    /\ \A d \in LiveDevices :
          (devices[d].client = current_focus' /\ d \in Range(known_devices))
              => Count(out', SelectionEv(d, 0)) = 1
    /\ \A i \in 1..Len(out') : out'[i].k # "wl_data_device.data_offer"
    /\ offers' = offers

C2_PassSanitizes ==
    [][(current_focus' # 0 /\ C2_PassStep) =>
          /\ ~DeadClientSel(selection')
          /\ (DeadClientSel(selection) /\ (\E c \in Clients : SetDataDeviceFocus(c))
                 => C2_CollapsedToNull)]_vars

\* a pass found the owning source dead and told a live device null
C2_Witness ==
    /\ current_focus # 0
    /\ selection = EmptySel
    /\ \E s \in SourceIds : ~sources[s].alive
    /\ Len(out) >= 2
    /\ out[1] = StoreSelectionEv(EmptySel)
    /\ \E d \in LiveDevices : out[2] = SelectionEv(d, 0)

(* C3: a set_selection request of a client that does not hold the         *)
(* keyboard focus, or on a seat without keyboard, is ignored: no callback *)
(* runs, selection, focus and device list stay as they are and no event   *)
(* is sent.                                                                *)
C3_UnfocusedSetSelectionIgnored ==
    [][\A d \in DeviceIds, s \in SourceIds \cup {0} :
          (~HoldsKbdFocus(d) /\ ReqSetSelection(d, s)) =>
              /\ UNCHANGED <<seat_ready, known_devices, selection,
                             current_focus, offers, dd_selection>>
              /\ \A i \in 1..Len(out') :
                    ~IsWire(out'[i]) /\ ~IsCallback(out'[i])]_vars

\* a request was denied while another client held the keyboard focus and
\* the seat had a focused data-device client with a device
C3_Witness ==
    /\ out = <<DebugEv(DenySelectionMsg)>>
    /\ has_keyboard /\ kbd_focus # 0
    /\ current_focus # 0
    /\ \E d \in LiveDevices :
          /\ devices[d].client # SurfaceClient(kbd_focus)
          /\ \E s \in LiveSources : sources[s].client = devices[d].client

(* C4: a device that is advertised a non-empty selection receives         *)
(* data_offer(o) for a fresh offer o, then offer(mime) once for each MIME *)
(* type of the selection in its stored order, then selection(o);          *)
(* selection(o) is never sent for an offer that data_offer did not        *)
(* introduce on that device.                                               *)
C4_OfferBeforeSelection ==
    [][\A i \in 1..Len(out') :
          (out'[i].k = "wl_data_device.selection" /\ out'[i].obj # 0) =>
              LET d  == out'[i].dev
                  o  == out'[i].obj
                  ms == StoredMimes(selection')
                  j  == i - Len(ms) - 1
              IN  /\ o \notin OfferIds
                  /\ o \in 1..Len(offers')
                  /\ j >= 1
                  /\ out'[j] = DataOfferEv(d, o)
                  /\ \A n \in 1..Len(ms) : out'[j + n] = OfferEv(d, o, ms[n])
                  /\ Count(out', DataOfferEv(d, o)) = 1
                  /\ Count(out', SelectionEv(d, o)) = 1]_vars

\* two devices were advertised a two-type selection in one pass
C4_Witness ==
    /\ Len(out) >= 8
    /\ \E d1, d2 \in LiveDevices :
          /\ d1 # d2
          /\ \E i, j \in 1..Len(out) :
                /\ out[i].k = "wl_data_device.selection" /\ out[i].dev = d1
                /\ out[j].k = "wl_data_device.selection" /\ out[j].dev = d2
                /\ out[i].obj # 0 /\ out[j].obj # 0
    /\ Len(StoredMimes(selection)) = 2

(* C5: receive(mime, fd) on an offer of a client-owned selection makes    *)
(* the source receive send(mime, fd) exactly when the source is alive and *)
(* mime is in its MIME list at that time; accepted or denied, the server  *)
(* closes fd exactly once, after the send attempt.                        *)
C5_ClientReceive ==
    [][\A o \in OfferIds, m \in ReceiveMimes, fd \in Fds :
          (ReqReceive(o, m, fd) /\ offers[o].kind = "Client") =>
              LET s  == offers[o].source
                  ok == sources[s].alive /\ m \in Range(sources[s].mimes)
              IN  /\ (Count(out', SendEv(s, m, fd)) = 1) = ok
                  /\ \A i \in 1..Len(out') :
                        out'[i].k = "wl_data_source.send" => out'[i] = SendEv(s, m, fd)
                  /\ Count(out', CloseEv(fd)) = 1
                  /\ \A i \in 1..Len(out') :
                        out'[i].k = "close" => out'[i] = CloseEv(fd)
                  /\ out'[Len(out')] = CloseEv(fd)
                  /\ \A i \in 1..Len(out') : ~IsCallback(out'[i])]_vars

\* a receive on a live offer of a client-owned selection was forwarded to
\* its live source and the fd closed afterwards
C5_Witness ==
    /\ Len(out) = 2
    /\ out[1].k = "wl_data_source.send"
    /\ \E o \in LiveOffers :
          /\ offers[o].kind = "Client"
          /\ out[1].obj = offers[o].source
          /\ sources[offers[o].source].alive
    /\ out[2] = CloseEv(out[1].fd)

(* C6: receive(mime, fd) on an offer of a compositor-owned selection with *)
(* mime in the list given to set_data_device_selection invokes the        *)
(* callback once with SendSelection{mime, fd} and the server does not     *)
(* close fd; with any other mime the callback is not invoked and the      *)
(* server closes fd. The fd is closed or handed over, never both, never   *)
(* neither.                                                                *)
C6_CompositorReceive ==
    [][\A o \in OfferIds, m \in ReceiveMimes, fd \in Fds :
          (ReqReceive(o, m, fd) /\ offers[o].kind = "Compositor") =>
              LET handed == Count(out', SendSelectionCb(m, fd))
                  closed == Count(out', CloseEv(fd))
              IN  /\ m \in Range(offers[o].mimes) => handed = 1 /\ closed = 0
                  /\ m \notin Range(offers[o].mimes) => handed = 0 /\ closed = 1
                  /\ handed + closed = 1
                  /\ \A i \in 1..Len(out') :
                        /\ IsCallback(out'[i]) => out'[i] = SendSelectionCb(m, fd)
                        /\ out'[i].k = "close" => out'[i] = CloseEv(fd)
                        /\ ~IsWire(out'[i])]_vars

\* the callback was handed the fd of a receive
C6_Witness ==
    /\ Len(out) = 1
    /\ out[1].k = "DataDeviceEvent::SendSelection"
    /\ out[1].mime = "text/plain"
    /\ \E o \in OfferIds : offers[o].kind = "Compositor"

(* C7: a start_drag request whose serial is not the serial of the current *)
(* grab of the pointer, or on a seat without pointer, is ignored: the     *)
(* grab of the pointer is unchanged, no DnDStarted callback runs, the     *)
(* icon gets no role and no event or protocol error is sent.              *)
C7_StartDragWithoutGrabIgnored ==
    [][\A d \in DeviceIds, s \in SourceIds \cup {0}, icon \in Surfaces \cup {0},
         serial \in Serials :
          (/\ ReqStartDrag(d, s, icon, serial)
           /\ ~(has_pointer /\ ptr_grab.kind # "None" /\ ptr_grab.serial = serial)) =>
              /\ UNCHANGED <<ptr_grab, surf_role, has_pointer>>
              /\ \A i \in 1..Len(out') :
                    ~IsWire(out'[i]) /\ ~IsCallback(out'[i])]_vars

\* a drag was refused while the pointer was grabbed under another serial
C7_Witness ==
    /\ out = <<DebugEv(DenyDragMsg)>>
    /\ has_pointer
    /\ ptr_grab.kind = "Click"
    /\ \E s \in Surfaces : surf_alive[s] /\ surf_role[s] = ""

(* C8: a start_drag request with the serial of the pointer grab and an    *)
(* icon that already has another role posts the Role error on the data   *)
(* device and ends the request: no DnDStarted callback, the pointer grab  *)
(* is not replaced by a DnD grab.                                          *)
C8_IconWithOtherRoleIsError ==
    [][\A d \in DeviceIds, s \in SourceIds \cup {0}, icon \in Surfaces,
         serial \in Serials :
          (/\ ReqStartDrag(d, s, icon, serial)
           /\ has_pointer /\ ptr_grab.kind # "None" /\ ptr_grab.serial = serial
           /\ surf_role[icon] \notin {"", "dnd_icon"}) =>
              /\ out' = <<PostErrorEv(d)>>
              /\ UNCHANGED <<ptr_grab, surf_role>>]_vars

\* the Role error was posted while the pointer held its implicit grab
C8_Witness ==
    /\ Len(out) = 1
    /\ out[1].k = "wl_data_device.post_error(Role)"
    /\ ptr_grab.kind = "Click"

(* C9: a start_drag request with the serial of the pointer grab and no    *)
(* role conflict of the icon invokes the callback once with DnDStarted    *)
(* carrying the source and icon of the request, installs a DnD grab on    *)
(* the pointer under the same serial and gives the icon, if any, the role *)
(* dnd_icon.                                                               *)
C9_StartDragStarts ==
    [][\A d \in DeviceIds, s \in SourceIds \cup {0}, icon \in Surfaces \cup {0},
         serial \in Serials :
          (/\ ReqStartDrag(d, s, icon, serial)
           /\ has_pointer /\ ptr_grab.kind # "None" /\ ptr_grab.serial = serial
           /\ (icon # 0 => surf_role[icon] \in {"", "dnd_icon"})) =>
              /\ out' = <<DnDStartedCb(s, icon)>>
              /\ ptr_grab'.kind = "DnD"
              /\ ptr_grab'.serial = serial
              /\ ptr_grab'.source = s
              /\ ptr_grab'.icon = icon
              /\ icon # 0 => surf_role'[icon] = "dnd_icon"
              /\ \A x \in Surfaces \ {icon} : surf_role'[x] = surf_role[x]]_vars

\* a drag with a source and an icon was started
C9_Witness ==
    /\ Len(out) = 1
    /\ out[1].k = "DataDeviceEvent::DnDStarted"
    /\ out[1].obj # 0 /\ out[1].dev # 0
    /\ ptr_grab = DnDGrab(ptr_grab.serial, out[1].obj, out[1].dev)
    /\ surf_role[out[1].dev] = "dnd_icon"

(* C10: a set_selection request of the client that holds the keyboard     *)
(* focus invokes the NewSelection(source) callback exactly once, before   *)
(* the selection of the seat is changed and before any data_offer or      *)
(* selection event; afterwards the selection is ClientOwned(source) when  *)
(* a source was given and Empty when it was null.                         *)
C10_FocusedSetSelection ==
    [][\A d \in DeviceIds, s \in SourceIds \cup {0} :
          (HoldsKbdFocus(d) /\ ReqSetSelection(d, s)) =>
              LET new == IF s # 0 THEN ClientSel(s) ELSE EmptySel
              IN  /\ Len(out') >= 2
                  /\ out'[1] = NewSelectionCb(s)
                  /\ out'[2] = StoreSelectionEv(new)
                  /\ \A i \in 2..Len(out') : ~IsCallback(out'[i])
                  /\ selection' = new]_vars

\* a focused client set a source as selection and its own device was sent
\* the offer
C10_Witness ==
    /\ Len(out) > 2
    /\ out[1].k = "DataDeviceEvent::NewSelection"
    /\ out[1].obj # 0
    /\ selection = ClientSel(out[1].obj)
    /\ out[Len(out)].k = "wl_data_device.selection"

----------------------------------------------------------------------------
(* Vocabulary of the keyboard properties *)

IsKbdWire(e) ==
    e.k \in {"wl_keyboard.keymap", "wl_keyboard.repeat_info", "wl_keyboard.enter",
             "wl_keyboard.leave", "wl_keyboard.modifiers", "wl_keyboard.key"}

\* the wire events of q, and those of them keyboard kbd receives
KbdWire(q) == SelectSeq(q, IsKbdWire)
KbdEvents(q, kbd) == SelectSeq(q, LAMBDA e : IsKbdWire(e) /\ e.kbd = kbd)

IsGrabCall(e) == e.k \in {"KeyboardGrab::input", "KeyboardGrab::set_focus"}

\* the last handler was KeyboardHandle::input
InputRan(q) == q # <<>> /\ q[Len(q)].k = "KeyboardHandle::input return"

\* the known, live keyboards of the client that owns live surface s
KbdsOf(s) ==
    IF s = 0 THEN {}
    ELSE {kbd \in Range(known_kbds) :
             /\ keyboards[kbd].alive
             /\ surf_alive[s]
             /\ keyboards[kbd].client = SurfaceClient(s)}

\* the positions of q that hold an event of kind k
At(q, k) == {i \in 1..Len(q) : q[i].k = k}

\* a byte blob read back as u32 codes, four bytes each
RECURSIVE DecodeKeys(_)
DecodeKeys(blob) ==
    IF Len(blob) < 4 THEN <<>>
    ELSE <<blob[1] + 256 * blob[2] + 65536 * blob[3] + 16777216 * blob[4]>>
         \o DecodeKeys(SubSeq(blob, 5, Len(blob)))

(* C11: on every keyboard resource each enter event is followed at once   *)
(* by one modifiers event, and by no second one before a key event: a     *)
(* modifiers event only ever comes right after an enter or a key event of *)
(* the same resource.                                                      *)
C11_EnterThenOneModifiers ==
    \A kbd \in KeyboardIds :
        LET q == KbdEvents(out, kbd)
        IN  \A i \in 1..Len(q) :
                /\ q[i].k = "wl_keyboard.enter" =>
                      /\ i < Len(q)
                      /\ q[i + 1].k = "wl_keyboard.modifiers"
                      /\ (i + 2 <= Len(q) => q[i + 2].k # "wl_keyboard.modifiers")
                /\ q[i].k = "wl_keyboard.modifiers" =>
                      /\ i > 1
                      /\ q[i - 1].k \in {"wl_keyboard.enter", "wl_keyboard.key"}

\* a keyboard that held keys down was left and entered again in one focus
\* change
C11_Witness ==
    \E kbd \in KeyboardIds :
        LET q == KbdEvents(out, kbd)
        IN  /\ Len(q) = 3
            /\ q[1].k = "wl_keyboard.leave"
            /\ q[2].k = "wl_keyboard.enter"
            /\ q[3].k = "wl_keyboard.modifiers"
            /\ pressed_keys # <<>>

(* C12: a focus change from surface A to another surface B (either may be *)
(* null) sends leave(serial, A) to every keyboard of A's client, all of    *)
(* them before any enter(serial, B) to a keyboard of B's client; every     *)
(* enter is followed at once by modifiers with the same serial on the same *)
(* keyboard; no enter is sent when B is null and no leave when A is null.  *)
C12_LeaveBeforeEnter ==
    [][kbd_focus' # kbd_focus =>
          LET A == kbd_focus
              B == kbd_focus'
              w == KbdWire(out')
          IN  /\ \A i \in At(w, "wl_keyboard.leave"), j \in At(w, "wl_keyboard.enter") :
                    i < j
              /\ \A kbd \in KeyboardIds :
                    /\ Cardinality({i \in At(w, "wl_keyboard.leave") : w[i].kbd = kbd})
                          = IF kbd \in KbdsOf(A) THEN 1 ELSE 0
                    /\ Cardinality({i \in At(w, "wl_keyboard.enter") : w[i].kbd = kbd})
                          = IF kbd \in KbdsOf(B) THEN 1 ELSE 0
              /\ \A i \in At(w, "wl_keyboard.leave") : w[i].surface = A
              /\ \A i \in At(w, "wl_keyboard.enter") :
                    /\ w[i].surface = B
                    /\ i < Len(w)
                    /\ w[i + 1].k = "wl_keyboard.modifiers"
                    /\ w[i + 1].kbd = w[i].kbd
                    /\ w[i + 1].serial = w[i].serial
              /\ \A i \in 1..Len(w) :
                    w[i].k \in {"wl_keyboard.leave", "wl_keyboard.enter",
                                "wl_keyboard.modifiers"}
              /\ \A i, j \in 1..Len(w) : w[i].serial = w[j].serial]_vars

\* the focus moved between two surfaces of one client that has two
\* keyboards: both were left before either was entered
C12_Witness ==
    /\ Len(KbdWire(out)) = 6
    /\ KbdWire(out)[1].k = "wl_keyboard.leave"
    /\ KbdWire(out)[2].k = "wl_keyboard.leave"
    /\ KbdWire(out)[3].k = "wl_keyboard.enter"
    /\ KbdWire(out)[1].surface # KbdWire(out)[3].surface

(* C13: a keystroke fed to input whose filter answers Forward, under the   *)
(* default grab, reaches every keyboard of the focused client as exactly   *)
(* one key event carrying that keystroke, sent before input returns: the   *)
(* key events of a keyboard come in the order of the calls, none twice.    *)
C13_KeysInOrder ==
    [][InputRan(out') =>
          \A keycode \in Keys, state \in KeyStates, serial \in Serials,
             time \in Times :
             (/\ GrabHandler = "DefaultGrab"
              /\ out'[1].keycode = keycode + 8
              /\ KbdInput(keycode, state, serial, time,
                          [kind |-> "Forward", val |-> ""])) =>
                 \A kbd \in KeyboardIds :
                    SelectSeq(KbdEvents(out', kbd),
                              LAMBDA e : e.k = "wl_keyboard.key")
                       = IF kbd \in KbdsOf(kbd_focus)
                         THEN <<KeyEv(kbd, serial, time, keycode, state)>>
                         ELSE <<>>]_vars

\* a forwarded keystroke reached both keyboards of the focused client
C13_Witness ==
    /\ InputRan(out)
    /\ kbd_grab.kind = "None"
    /\ Cardinality(KbdsOf(kbd_focus)) = 2
    /\ Cardinality(At(out, "wl_keyboard.key")) = 2

(* C14: set_focus(F, s) called while the focus already is F emits no      *)
(* leave, enter or modifiers event and leaves the focus equal to F, for a  *)
(* surface F and for the null focus: the second of two consecutive         *)
(* set_focus(F, ..) calls that reach the inner handle changes nothing.     *)
C14_SameFocusIsSilent ==
    [][\A f \in Surfaces \cup {0}, serial \in Serials :
          (kbd_focus = f /\ KbdSetFocus(f, serial)) =>
              /\ KbdWire(out') = <<>>
              /\ kbd_focus' = f]_vars

\* a forwarding grab passed on a set_focus to the surface that is focused
\* already, a client with a keyboard, and nothing else happened
C14_Witness ==
    /\ kbd_focus # 0
    /\ KbdsOf(kbd_focus) # {}
    /\ out = <<GrabSetFocusEv("Forward", kbd_focus, 2)>>

(* C15: for every key code k and every pressed-key list, also one that    *)
(* holds k already, input(k, Pressed) followed by input(k, Released)       *)
(* leaves the pressed-key list as it was, in content and order.            *)
C15_PressReleaseRestoresList ==
    \A k \in Keys :
        TrackPressed(TrackPressed(pressed_keys, k, "Pressed"), k, "Released")
            = pressed_keys

(* C16: the key blob of every enter event is 4 bytes per pressed key and  *)
(* reads back, 4 bytes per code, as the pressed-key list at the time of    *)
(* the focus change, in press order.                                       *)
C16_EnterBlobIsPressedKeys ==
    \A i \in At(out, "wl_keyboard.enter") :
        /\ Len(out[i].keys) = 4 * Len(pressed_keys)
        /\ DecodeKeys(out[i].keys) = pressed_keys

\* an enter event carried two keys, one of them above 255
C16_Witness ==
    \E i \in At(out, "wl_keyboard.enter") :
        /\ Len(out[i].keys) = 8
        /\ \E j \in 1..Len(pressed_keys) : pressed_keys[j] > 255
        /\ pressed_keys[1] # pressed_keys[2]

(* C17: every call of input runs the filter exactly once and before any   *)
(* grab handler; when the grab that is active has an input handler that    *)
(* does not forward, no key or modifiers event reaches any keyboard.       *)
C17_FilterFirstGrabSwallows ==
    [][InputRan(out') =>
          /\ At(out', "filter") = {1}
          /\ (kbd_grab.kind = "Active" /\ kbd_grab.handler = "Swallow"
                 /\ ~GrabDiscarded /\ out'[Len(out')].val = None)
                => /\ KbdWire(out') = <<>>
                   /\ At(out', "KeyboardGrab::input") = {2}]_vars

\* a keystroke went through the filter and was swallowed by the grab while
\* the focused client had a keyboard
C17_Witness ==
    /\ Len(out) = 3
    /\ out[1].k = "filter"
    /\ out[2].k = "KeyboardGrab::input"
    /\ out[2].handler = "Swallow"
    /\ InputRan(out)
    /\ KbdsOf(kbd_focus) # {}

C19_KeyThenModifiers ==
    [][InputRan(out') =>
          \A keycode \in Keys, state \in KeyStates, serial \in Serials,
             time \in Times :
             (/\ GrabHandler \in {"DefaultGrab", "Forward"}
              /\ out'[1].keycode = keycode + 8
              /\ KbdInput(keycode, state, serial, time,
                          [kind |-> "Forward", val |-> ""])) =>
                 \A kbd \in KbdsOf(kbd_focus) :
                    KbdEvents(out', kbd)
                       = IF SerializeModifiers(xkb_state')
                               # SerializeModifiers(xkb_state)
                         THEN <<KeyEv(kbd, serial, time, keycode, state),
                                ModifiersEv(kbd, serial,
                                            SerializeModifiers(xkb_state'))>>
                         ELSE <<KeyEv(kbd, serial, time, keycode, state)>>]_vars

\* the release of shift reached a keyboard, followed by modifiers with
\* shift cleared
C19_Witness ==
    /\ InputRan(out)
    /\ \E i \in At(out, "wl_keyboard.key") :
          /\ out[i].state = "Released"
          /\ i < Len(out)
          /\ out[i + 1].k = "wl_keyboard.modifiers"
          /\ out[i + 1].mods = <<0, 0, 0, 0>>

(* C20: a dispatch, by input or by set_focus, that finds an active grab   *)
(* whose start-data surface is dead does not run the grab's handler,       *)
(* handles the event the default way and leaves the grab slot None; a grab *)
(* whose start-data focus is null or alive is not dropped by a dispatch.   *)
C20_Dispatched ==
    \/ InputRan(out') /\ out'[Len(out')].val = None
    \/ \E f \in Surfaces \cup {0}, serial \in Serials : KbdSetFocus(f, serial)

C20_DeadGrabIsDropped ==
    [][(kbd_grab.kind = "Active" /\ C20_Dispatched) =>
          IF kbd_grab.focus # 0 /\ ~surf_alive[kbd_grab.focus]
          THEN /\ kbd_grab' = NoKbdGrab
               /\ \A i \in 1..Len(out') : ~IsGrabCall(out'[i])
               /\ Cardinality({i \in 1..Len(out') :
                                 out'[i] = DropGrabEv(kbd_grab.handler)}) = 1
               /\ InputRan(out') =>
                     \A kbd \in KbdsOf(kbd_focus) :
                        Cardinality({i \in At(out', "wl_keyboard.key") :
                                       out'[i].kbd = kbd}) = 1
               /\ ~InputRan(out') =>
                     kbd_focus' = IF SameFocus(kbd_focus, pending_focus')
                                  THEN kbd_focus ELSE pending_focus'
          ELSE /\ kbd_grab' = kbd_grab
               /\ At(out', "drop(Box<dyn KeyboardGrab>)") = {}]_vars

\* a keystroke found the grab's start surface dead: the grab is gone and the
\* keyboard of the focused client got the key
C20_Witness ==
    /\ InputRan(out)
    /\ kbd_grab = NoKbdGrab
    /\ \E s \in Surfaces : ~surf_alive[s]
    /\ At(out, "KeyboardGrab::input") = {}
    /\ At(out, "wl_keyboard.key") # {}
    /\ out[Len(out) - 1] = DropGrabEv("Forward")

(* C21: when a grab's handler calls unset_grab(serial, true) the grab slot *)
(* is None afterwards and the focus is the surface of the latest           *)
(* KeyboardHandle::set_focus call, pending_focus, also one the grab        *)
(* swallowed; leave, enter and modifiers are sent when that differs from   *)
(* the focus held during the grab. With restore_focus false the focus      *)
(* stays and nothing is sent.                                              *)
C21_HandlerUnsets(h) ==
    /\ kbd_grab.kind = "Active"
    /\ kbd_grab.handler = h
    /\ \E i \in At(out', "KeyboardGrab::input") : out'[i].handler = h

C21_UnsetGrabRestoresFocus ==
    [][/\ C21_HandlerUnsets("UnsetRestore") =>
             LET w == KbdWire(out')
             IN  /\ kbd_grab' = NoKbdGrab
                 /\ kbd_focus' = pending_focus
                 /\ pending_focus' = pending_focus
                 /\ IF kbd_focus = pending_focus
                    THEN w = <<>>
                    ELSE /\ \A kbd \in KeyboardIds :
                            /\ Cardinality({i \in At(w, "wl_keyboard.leave") :
                                              w[i].kbd = kbd})
                                  = IF kbd \in KbdsOf(kbd_focus) THEN 1 ELSE 0
                            /\ Cardinality({i \in At(w, "wl_keyboard.enter") :
                                              w[i].kbd = kbd})
                                  = IF kbd \in KbdsOf(pending_focus) THEN 1 ELSE 0
                         /\ \A i \in At(w, "wl_keyboard.leave") :
                               w[i].surface = kbd_focus
                         /\ \A i \in At(w, "wl_keyboard.enter") :
                               /\ w[i].surface = pending_focus
                               /\ i < Len(w)
                               /\ w[i + 1].k = "wl_keyboard.modifiers"
                               /\ w[i + 1].kbd = w[i].kbd
                         /\ \A i \in At(w, "wl_keyboard.leave"),
                               j \in At(w, "wl_keyboard.enter") : i < j
       /\ C21_HandlerUnsets("UnsetKeep") =>
             /\ kbd_grab' = NoKbdGrab
             /\ kbd_focus' = kbd_focus
             /\ KbdWire(out') = <<>>
             /\ At(out', "focus_hook") = {}]_vars

\* a grab that swallowed a set_focus to the other client's surface ended
\* itself with restore_focus: one keyboard was left, the other entered
C21_Witness ==
    /\ Len(out) > 2
    /\ out[2].k = "KeyboardGrab::input"
    /\ out[2].handler = "UnsetRestore"
    /\ At(out, "wl_keyboard.leave") # {}
    /\ At(out, "wl_keyboard.enter") # {}
    /\ kbd_grab = NoKbdGrab
    /\ kbd_focus = pending_focus

(* C22: change_repeat_info(rate, delay) stores the rate and the delay and *)
(* sends repeat_info(rate, delay) to exactly the known keyboards of        *)
(* version 4 or more; a keyboard of a lower version never receives a       *)
(* repeat_info event, neither when it is registered nor on a change.       *)
C22_RepeatInfoOnlyFromV4 ==
    [][/\ \A i \in At(out', "wl_keyboard.repeat_info") :
             keyboards'[out'[i].kbd].version >= 4
       /\ \A ri \in RepeatInfos :
             ChangeRepeatInfo(ri.rate, ri.delay) =>
                /\ repeat_info' = ri
                /\ \A kbd \in KeyboardIds :
                      Cardinality({i \in 1..Len(out') :
                                     out'[i] = RepeatInfoEv(kbd, ri.rate, ri.delay)})
                         = IF kbd \in Range(known_kbds)
                                 /\ keyboards[kbd].version >= 4
                           THEN 1 ELSE 0]_vars

(* C23: a keyboard enters the known-keyboard list only in the step that   *)
(* delivers its keymap, the first event it receives, and only keyboards of *)
(* the list receive events; when the keymap file cannot be written the     *)
(* keyboard is not added and receives no keymap or repeat_info, and so it  *)
(* never receives an enter, key, modifiers or repeat_info event later.     *)
C23_KnownOnlyWithKeymap ==
    [][/\ \A kbd \in Range(known_kbds') \ Range(known_kbds) :
             /\ kbd = Len(keyboards) + 1
             /\ out' # <<>>
             /\ out'[1] = KeymapEv(kbd)
       /\ \A i \in 1..Len(out') :
             IsKbdWire(out'[i]) => out'[i].kbd \in Range(known_kbds')
       /\ \A c \in Clients, version \in KbdVersions :
             NewKbd(c, version, FALSE) =>
                /\ out' = <<WarnEv(KeymapFailedMsg)>>
                /\ known_kbds' = known_kbds]_vars

\* a keystroke reached a keyboard of the focused client while another live
\* keyboard of that client, whose keymap could not be written, got nothing
C23_Witness ==
    /\ kbd_focus # 0
    /\ At(out, "wl_keyboard.key") # {}
    /\ \E kbd \in KeyboardIds :
          /\ keyboards[kbd].alive
          /\ kbd \notin Range(known_kbds)
          /\ keyboards[kbd].client = SurfaceClient(kbd_focus)
          /\ \A i \in At(out, "wl_keyboard.key") : out[i].kbd # kbd

(* C24: for every pair of action sets, default_action_chooser returns     *)
(* preferred when preferred is exactly one of Move, Copy, Ask and is       *)
(* contained in available; otherwise the first of Ask, Copy, Move that     *)
(* available contains; otherwise the empty action. An empty preferred and  *)
(* one of several actions always take the fallback order.                  *)
C24_Fallback(available) ==
    IF "Ask" \in available THEN {"Ask"}
    ELSE IF "Copy" \in available THEN {"Copy"}
    ELSE IF "Move" \in available THEN {"Move"}
    ELSE {}

C24_ChooserPicks ==
    \A i \in At(out, "action_choice") :
        out[i].result =
            IF /\ Cardinality(out[i].preferred) = 1
               /\ out[i].preferred \subseteq out[i].available
            THEN out[i].preferred
            ELSE C24_Fallback(out[i].available)

\* the chooser was asked with two preferred actions, both available, and
\* fell back to Copy
C24_Witness ==
    \E i \in At(out, "action_choice") :
        /\ out[i].preferred = {"Copy", "Move"}
        /\ out[i].available = {"Copy", "Move"}
        /\ out[i].result = {"Copy"}

(* C25: during a drag the chooser is called with the intersection of the  *)
(* source's action set and the set the target last announced as supported, *)
(* and with the target's preferred action; the action announced to the     *)
(* target and to the source is the chooser's answer.                       *)
C25_ChooserGetsIntersection ==
    [][/\ \A supported, preferred \in ActionSets :
             DnDOfferSetActions(supported, preferred) =>
                LET S == dnd_action[ptr_grab.source]
                    a == DefaultActionChooser(S \cap supported, preferred)
                IN  /\ Len(out') = 3
                    /\ out'[1] = ActionChoiceEv(S \cap supported, preferred, a)
                    /\ out'[2] = OfferActionEv(offer_data.surface, a)
                    /\ out'[3] = SourceActionEv(ptr_grab.source, a)
       /\ offer_data'.active =>
             offer_data'.chosen_action =
                DefaultActionChooser(
                    dnd_action'[ptr_grab'.source] \cap offer_data'.supported,
                    offer_data'.preferred)]_vars

\* the target supports an action the source does not offer and the source
\* one the target does not support: what both support was announced
C25_Witness ==
    /\ Len(out) = 3
    /\ out[1].k = "action_choice"
    /\ out[1].available # {}
    /\ out[1].available # offer_data.supported
    /\ out[1].available # dnd_action[ptr_grab.source]
    /\ out[3] = SourceActionEv(ptr_grab.source, offer_data.chosen_action)
    /\ offer_data.chosen_action # {}

(* C26: set_data_device_focus with no client sends no event and leaves    *)
(* the selection as it is; with a client c it advertises, also when c     *)
(* held the focus before: every live data device of c is sent exactly one *)
(* selection event, with exactly one offer created in this pass when the  *)
(* selection the pass ends with is not Empty, and no device that is dead  *)
(* or of another client is sent anything.                                 *)
C26_EventsOf(q, d, k) == {i \in 1..Len(q) : q[i].dev = d /\ q[i].k = k}

C26_FocusAdvertises ==
    [][/\ (current_focus' = 0 /\ SetDataDeviceFocus(0)) =>
             /\ out' = <<>>
             /\ selection' = selection
             /\ offers' = offers
       /\ \A c \in Clients :
             (current_focus' = c /\ UNCHANGED <<devices, sources, kbdVars>>
                 /\ SetDataDeviceFocus(c)) =>
                \A d \in DeviceIds :
                    IF devices[d].alive /\ devices[d].client = c
                    THEN /\ Cardinality(C26_EventsOf(out', d, "wl_data_device.selection")) = 1
                         /\ IF selection'.kind = "Empty"
                            THEN /\ Count(out', SelectionEv(d, 0)) = 1
                                 /\ C26_EventsOf(out', d, "wl_data_device.data_offer") = {}
                            ELSE \E o \in (Len(offers) + 1)..Len(offers') :
                                    /\ offers'[o].dev = d
                                    /\ Count(out', SelectionEv(d, o)) = 1
                                    /\ Count(out', DataOfferEv(d, o)) = 1
                                    /\ Cardinality(C26_EventsOf(out', d,
                                           "wl_data_device.data_offer")) = 1
                    ELSE \A i \in 1..Len(out') : out'[i].dev # d]_vars

\* the focus was given to the client of a device that was advertised the
\* same selection before: the device is sent a second, new offer, and the
\* other device, which is dead or of the other client, nothing
C26_Witness ==
    /\ current_focus # 0
    /\ Len(devices) = 2
    /\ Len(offers) = 2
    /\ \E d \in LiveDevices :
          /\ devices[d].client = current_focus
          /\ offers[1].dev = d /\ offers[2].dev = d
          /\ offers[1].source = offers[2].source
          /\ offers[1].kind = offers[2].kind
          /\ Len(out) >= 2
          /\ out[1] = DataOfferEv(d, 2)
          /\ out[Len(out)] = SelectionEv(d, 2)
          /\ \A x \in DeviceIds \ {d} : devices[x].client # current_focus

(* C27: release takes the data device out of the device list of the seat  *)
(* and keeps every other live device in it, changes neither the selection *)
(* nor the focus and sends nothing; a released device never returns to    *)
(* the list and is sent no data_offer or selection event by any later     *)
(* advertisement.                                                         *)
C27_Released(d) == ~devices[d].alive /\ d \notin Range(known_devices)

C27_ReleaseRemovesDevice ==
    [][/\ \A d \in DeviceIds :
             (~devices'[d].alive /\ ReqRelease(d)) =>
                /\ d \notin Range(known_devices')
                /\ \A x \in LiveDevices \ {d} :
                      Count(known_devices', x) = Count(known_devices, x)
                /\ selection' = selection
                /\ current_focus' = current_focus
                /\ out' = <<>>
       /\ \A d \in DeviceIds :
             C27_Released(d) =>
                /\ d \notin Range(known_devices')
                /\ \A i \in 1..Len(out') :
                      out'[i].k \in {"wl_data_device.data_offer",
                                     "wl_data_device.selection"}
                          => out'[i].dev # d]_vars

\* a client released one of its two devices and later, holding the focus,
\* was advertised a selection on the device it kept
C27_Witness ==
    \E d, x \in DeviceIds :
        /\ C27_Released(d)
        /\ client_alive[devices[d].client]
        /\ devices[d].client = current_focus
        /\ devices[x].alive /\ devices[x].client = current_focus
        /\ x \in Range(known_devices)
        /\ Len(out) >= 2
        /\ out[Len(out)].k = "wl_data_device.selection"
        /\ out[Len(out)].dev = x
        /\ out[Len(out)].obj # 0

(* C28: when a grab dispatch (with_grab) has returned the grab slot is    *)
(* not Borrowed. A handler that neither set nor unset the grab leaves the  *)
(* slot as it was before the dispatch, the same grab or None, a grab whose *)
(* start-data surface is dead having been replaced by None; after a        *)
(* handler that called unset_grab the slot is None, after one that called  *)
(* set_grab it holds the new grab, and in both cases the grab that was     *)
(* installed before is dropped, so that one grab at most is installed.     *)
C28_Returned ==
    /\ At(out', "panic!") = {}
    /\ \/ InputRan(out') /\ out'[Len(out')].val = None
       \/ \E f \in MainSurfaces \cup {0} : KbdSetFocus(f, 1)

C28_Called(hs) ==
    \E i \in At(out', "KeyboardGrab::input") : out'[i].handler \in hs

C28_Drops == Cardinality(At(out', "drop(Box<dyn KeyboardGrab>)"))

C28_SlotAfterDispatch ==
    [][C28_Returned =>
          /\ kbd_grab'.kind # "Borrowed"
          /\ IF C28_Called({"UnsetRestore", "UnsetKeep"})
             THEN /\ kbd_grab' = NoKbdGrab
                  /\ Count(out', DropGrabEv(kbd_grab.handler)) = 1
                  /\ C28_Drops = 1
             ELSE IF C28_Called({"Replace"})
             THEN /\ \E i \in At(out', "KeyboardGrab::input") :
                        kbd_grab' = ActiveGrab(out'[i].serial, "Swallow", 0)
                  /\ Count(out', DropGrabEv(kbd_grab.handler)) = 1
                  /\ C28_Drops = 1
             ELSE IF /\ kbd_grab.kind = "Active"
                     /\ kbd_grab.focus # 0
                     /\ ~surf_alive[kbd_grab.focus]
             THEN /\ kbd_grab' = NoKbdGrab
                  /\ C28_Drops = 1
             ELSE /\ kbd_grab' = kbd_grab
                  /\ C28_Drops = 0]_vars

\* a grab replaced itself during a keystroke: the new grab is installed and
\* the old one was dropped when the dispatch returned
C28_Witness ==
    /\ InputRan(out)
    /\ Len(out) = 4
    /\ out[2].k = "KeyboardGrab::input"
    /\ out[2].handler = "Replace"
    /\ out[3] = DropGrabEv("Replace")
    /\ kbd_grab = ActiveGrab(out[2].serial, "Swallow", 0)

(* C29: a grab dispatch, by input or by set_focus, that is entered while  *)
(* the grab slot is Borrowed panics: no grab handler is called, no wire    *)
(* event is sent, the focus hook does not run and the focus stays. No      *)
(* handler runs while another one of the keyboard is running: a handler    *)
(* that calls back into the keyboard handle panics there, and nothing else *)
(* happens in that dispatch.                                               *)
C29_Dispatch ==
    \/ \E f \in MainSurfaces \cup {0} : KbdSetFocus(f, 1)
    \/ \E state \in KeyStates, serial \in Serials :
          KbdInput(352, state, serial, 100, [kind |-> "Forward", val |-> ""])

C29_BorrowedPanics ==
    [][C29_Dispatch =>
          /\ kbd_grab.kind = "Borrowed" =>
                /\ out'[Len(out')] = PanicEv(BorrowedMsg)
                /\ \A i \in 1..Len(out') :
                      /\ ~IsGrabCall(out'[i])
                      /\ ~IsKbdWire(out'[i])
                      /\ out'[i].k # "focus_hook"
                /\ kbd_focus' = kbd_focus
                /\ kbd_grab' = kbd_grab
          /\ Cardinality({i \in 1..Len(out') : IsGrabCall(out'[i])}) <= 1
          /\ \A i \in At(out', "panic!") :
                \A j \in (i + 1)..Len(out') :
                    out'[j].k = "drop(Box<dyn KeyboardGrab>)"]_vars

\* set_focus found the slot Borrowed and panicked
C29_Witness ==
    /\ kbd_grab.kind = "Borrowed"
    /\ out = <<PanicEv(BorrowedMsg)>>
    /\ pending_focus # kbd_focus

(* C30: the focus hook runs exactly once in a set_focus that changes the  *)
(* focus, after the leave, enter and modifiers events and with the new     *)
(* focus, and does not run when the requested focus equals the current     *)
(* one, a null focus requested while the focus is null included.           *)
C30_HookOnlyOnChange ==
    [][LET hooks == At(out', "focus_hook")
       IN  IF kbd_focus' # kbd_focus
           THEN /\ Cardinality(hooks) = 1
                /\ \A i \in hooks :
                      /\ out'[i] = FocusHookEv(kbd_focus')
                      /\ \A j \in 1..Len(out') : IsKbdWire(out'[j]) => j < i
           ELSE hooks = {}]_vars

(* C31: input(k, Pressed) appends k to the end of the pressed-key list;   *)
(* input(k, Released) removes the first occurrence of k and only that one, *)
(* keeping every other entry, later occurrences of k included, in its      *)
(* order, and leaves the list as it is when k is not in it.                *)
RECURSIVE C31_RemoveFirst(_, _)
C31_RemoveFirst(keys, k) ==
    IF keys = <<>> THEN <<>>
    ELSE IF Head(keys) = k THEN Tail(keys)
    ELSE <<Head(keys)>> \o C31_RemoveFirst(Tail(keys), k)

C31_ReleaseRemovesFirst ==
    [][\A keycode \in Keys, state \in KeyStates, serial \in Serials,
         time \in Times, res \in FilterResults :
          KbdInput(keycode, state, serial, time, res) =>
              pressed_keys' = IF state = "Pressed"
                              THEN Append(pressed_keys, keycode)
                              ELSE C31_RemoveFirst(pressed_keys, keycode)]_vars

(* C32: every input call updates the pressed-key list and the modifier    *)
(* state before the filter runs, whatever the filter answers and whatever *)
(* grab is installed, and nothing else changes them: a key whose press    *)
(* was intercepted by the filter or swallowed by a grab is in the list,   *)
(* and in the key blob of every enter event, until its release is fed to  *)
(* input.                                                                 *)
C32_InputStep(keycode, res) ==
    /\ out' # <<>>
    /\ out'[1].k = "filter"
    /\ out'[1].keycode = keycode + 8
    /\ (res.kind = "Intercept") = (out'[Len(out')] = ReturnEv(Some(res.val)))

C32_KeysTrackedBeforeFilter ==
    [][/\ \A keycode \in Keys, state \in KeyStates, serial \in Serials,
            time \in Times, res \in FilterResults :
             (C32_InputStep(keycode, res)
                 /\ KbdInput(keycode, state, serial, time, res)) =>
                /\ pressed_keys' =
                      IF state = "Pressed" THEN Append(pressed_keys, keycode)
                      ELSE SelectSeq(pressed_keys, LAMBDA k : k # keycode)
                /\ xkb_state' =
                      XkbUpdateKey(xkb_state, keycode + 8,
                          IF state = "Pressed" THEN "Down" ELSE "Up").state
                /\ out'[1].mods_state = mods_state'
       /\ (out' = <<>> \/ out'[1].k # "filter") =>
             /\ pressed_keys' = pressed_keys
             /\ xkb_state' = xkb_state
             /\ mods_state' = mods_state
       /\ mods_state'.shift = (xkb_state'.shift > 0)
       /\ \A i \in At(out', "wl_keyboard.enter") :
             DecodeKeys(out'[i].keys) = pressed_keys']_vars

\* the press of the shift key was intercepted by the filter: the key is in
\* the list and the filter was shown the new modifier state
C32_Witness ==
    /\ Len(out) = 2
    /\ out[1].k = "filter"
    /\ out[1].keycode = 42 + 8
    /\ out[1].mods_state.shift
    /\ out[2] = ReturnEv(Some("binding"))
    /\ pressed_keys # <<>>
    /\ pressed_keys[Len(pressed_keys)] = 42

(* C33: every key event sent to a keyboard resource is preceded on that   *)
(* resource by an enter event for the focused surface with no leave in    *)
(* between, also on a keyboard registered through new_kbd while its       *)
(* client holds the keyboard focus. A keyboard that the last handler      *)
(* registered has been sent its keymap and no enter yet, so a key event   *)
(* it is sent by the next handler must follow an enter of that handler.   *)
C33_KeyOnlyAfterEnter ==
    [][\A kbd \in KeyboardIds :
          (\E n \in At(out, "wl_keyboard.keymap") : out[n].kbd = kbd) =>
              \A i \in At(out', "wl_keyboard.key") :
                  out'[i].kbd = kbd =>
                      \E j \in At(out', "wl_keyboard.enter") :
                          /\ j < i
                          /\ out'[j].kbd = kbd
                          /\ out'[j].surface = kbd_focus'
                          /\ \A n \in At(out', "wl_keyboard.leave") :
                                out'[n].kbd = kbd => n < j]_vars

(* C34: under the default grab, after any sequence of input and set_focus *)
(* calls, the modifiers event a keyboard of the focused client received   *)
(* last, once it has received an enter, carries the current serialized    *)
(* modifier state of the engine, also after a keystroke that changed the  *)
(* modifier state and was intercepted by the filter. Stated on the events *)
(* of two handlers in a row: a keyboard entered on the focused surface by *)
(* one of them and not left since.                                        *)
C34_Last(S) == CHOOSE i \in S : \A j \in S : j <= i

C34_LastModifiersCurrent ==
    [][(kbd_grab.kind = "None" /\ kbd_grab'.kind = "None") =>
          \A kbd \in KeyboardIds :
              LET q      == KbdEvents(out, kbd) \o KbdEvents(out', kbd)
                  enters == At(q, "wl_keyboard.enter")
                  leaves == At(q, "wl_keyboard.leave")
                  mods   == At(q, "wl_keyboard.modifiers")
              IN  (/\ enters # {}
                   /\ q[C34_Last(enters)].surface = kbd_focus'
                   /\ \A n \in leaves : n < C34_Last(enters)) =>
                      /\ mods # {}
                      /\ q[C34_Last(mods)].mods = SerializeModifiers(xkb_state')]_vars

(* C35: a set_selection request is accepted exactly when the client of    *)
(* the device owns the surface that holds the keyboard focus, whatever    *)
(* the data-device focus of the seat is. An accepted request stores the   *)
(* new selection and advertises it to the devices of the client that      *)
(* holds the data-device focus and to no other device, also when that is  *)
(* not the requesting client.                                             *)
C35_SetSelectionByKbdFocus ==
    [][(out' # <<>> /\ out'[1].k \in {"DataDeviceEvent::NewSelection", "debug!"}) =>
          \A d \in DeviceIds, s \in SourceIds \cup {0} :
              ReqSetSelection(d, s) =>
                  /\ HoldsKbdFocus(d) <=> out'[1] = NewSelectionCb(s)
                  /\ ~HoldsKbdFocus(d) <=> out' = <<DebugEv(DenySelectionMsg)>>
                  /\ HoldsKbdFocus(d) =>
                        /\ selection' = IF s # 0 THEN ClientSel(s) ELSE EmptySel
                        /\ current_focus' = current_focus
                        /\ \A i \in 1..Len(out') :
                              IsWire(out'[i]) =>
                                  /\ current_focus # 0
                                  /\ devices[out'[i].dev].alive
                                  /\ devices[out'[i].dev].client = current_focus
                        /\ \A x \in LiveDevices :
                              Cardinality({i \in At(out', "wl_data_device.selection") :
                                              out'[i].dev = x})
                                 = IF devices[x].client = current_focus
                                   THEN 1 ELSE 0]_vars

\* a client with the keyboard focus set its source as selection while the
\* other client held the data-device focus: that one's device got the offer
C35_Witness ==
    /\ Len(out) > 2
    /\ out[1].k = "DataDeviceEvent::NewSelection"
    /\ out[1].obj # 0
    /\ selection = ClientSel(out[1].obj)
    /\ current_focus # 0
    /\ sources[out[1].obj].client # current_focus
    /\ SurfaceClient(kbd_focus) = sources[out[1].obj].client
    /\ out[Len(out)].k = "wl_data_device.selection"
    /\ out[Len(out)].obj # 0
    /\ devices[out[Len(out)].dev].client = current_focus

(* C36: an offer stays bound to the source, or to the compositor's MIME   *)
(* list, of the selection it was created for. After the selection was     *)
(* replaced or the focus moved, a receive on an older offer is forwarded  *)
(* to the offer's own source while that is alive and offers the MIME      *)
(* type, or handed to the callback for the offer's own MIME list, and     *)
(* never goes to the source of the selection that replaced it.            *)
C36_Binding(off) == <<off.kind, off.source, off.mimes>>

C36_OfferKeepsItsSource ==
    [][/\ \A o \in OfferIds : C36_Binding(offers'[o]) = C36_Binding(offers[o])
       /\ \A o \in (Len(offers) + 1)..Len(offers') :
             C36_Binding(offers'[o]) = C36_Binding(selection')
       /\ (out' # <<>> /\ out'[Len(out')].k
               \in {"close", "DataDeviceEvent::SendSelection"}) =>
             \A o \in OfferIds, m \in ReceiveMimes, fd \in Fds :
                ReqReceive(o, m, fd) =>
                   LET s == offers[o].source
                   IN  IF offers[o].kind = "Client"
                       THEN /\ \A i \in At(out', "wl_data_source.send") :
                                  out'[i] = SendEv(s, m, fd)
                            /\ (sources[s].alive /\ m \in Range(sources[s].mimes))
                                  => Count(out', SendEv(s, m, fd)) = 1
                            /\ \A i \in 1..Len(out') : ~IsCallback(out'[i])
                       ELSE /\ At(out', "wl_data_source.send") = {}
                            /\ (m \in Range(offers[o].mimes))
                                  = (out' = <<SendSelectionCb(m, fd)>>)]_vars

\* a receive on the offer of a client's source was forwarded to that source
\* after the compositor had replaced the selection with its own
C36_Witness ==
    /\ Len(out) = 2
    /\ out[1].k = "wl_data_source.send"
    /\ selection.kind = "Compositor"
    /\ \E o \in LiveOffers :
          /\ offers[o].kind = "Client"
          /\ offers[o].source = out[1].obj
    /\ \E o \in LiveOffers : offers[o].kind = "Compositor"

(* C37: at every point of a dispatch the keyboard state and the           *)
(* data-device state of the seat are each mutably borrowed at most once.  *)
(* The focus hook and the input filter run while the keyboard state is    *)
(* borrowed; set_data_device_focus called from the focus hook borrows the *)
(* data-device state only and returns with it released; a                 *)
(* DataDeviceEvent callback never runs while the data-device state is     *)
(* borrowed; every guard is dropped when the handler returns.             *)
C37_Held(q, cell, i) ==
    Cardinality({j \in 1..i : q[j] = BorrowMutEv(cell)})
        - Cardinality({j \in 1..i : q[j] = DropRefMutEv(cell)})

C37_BorrowedOnce ==
    /\ \A i \in 1..Len(out) :
          /\ C37_Held(out, "KbdInternal", i) \in {0, 1}
          /\ C37_Held(out, "SeatData", i) \in {0, 1}
          /\ out[i].k \in {"focus_hook", "filter"} =>
                /\ C37_Held(out, "KbdInternal", i) = 1
                /\ C37_Held(out, "SeatData", i) = 0
          /\ IsCallback(out[i]) => C37_Held(out, "SeatData", i) = 0
          /\ out[i].k # "panic!"
    /\ C37_Held(out, "KbdInternal", Len(out)) = 0
    /\ C37_Held(out, "SeatData", Len(out)) = 0

\* set_focus ran the hook, which moved the data-device focus and advertised
\* the selection to the client's device while the keyboard state was
\* borrowed
C37_Witness ==
    \E i, j \in 1..Len(out) :
        /\ i < j
        /\ out[i].k = "focus_hook"
        /\ out[i + 1] = BorrowMutEv("SeatData")
        /\ out[j].k = "wl_data_device.selection"
        /\ out[j].obj # 0
        /\ C37_Held(out, "KbdInternal", j) = 1
        /\ C37_Held(out, "SeatData", j) = 1
        /\ current_focus = SurfaceClient(kbd_focus)

(* C38: the destruction of a keyboard resource that was implemented with  *)
(* a handle removes it from the known-keyboard list and removes no other  *)
(* keyboard; after any sequence of registrations and destructions the     *)
(* list holds no destroyed keyboard, and no key, enter, leave, modifiers  *)
(* or repeat_info event is sent to a destroyed keyboard.                  *)
C38_DestroyedKbdForgotten ==
    [][/\ client_alive' = client_alive =>
             \A kbd \in 1..Len(keyboards) :
                 (~keyboards'[kbd].alive /\ KbdDestroy(kbd)) =>
                    /\ kbd \notin Range(known_kbds')
                    /\ \A x \in Range(known_kbds) \ {kbd} :
                          Count(known_kbds', x) = Count(known_kbds, x)
                    /\ Len(known_kbds') =
                          Len(known_kbds) - Count(known_kbds, kbd)
                    /\ out' = <<>>
       /\ \A x \in Range(known_kbds') : keyboards'[x].alive
       /\ \A i \in 1..Len(out') :
             out'[i].k \in {"wl_keyboard.key", "wl_keyboard.enter",
                            "wl_keyboard.leave", "wl_keyboard.modifiers",
                            "wl_keyboard.repeat_info"}
                 => /\ out'[i].kbd \in 1..Len(keyboards')
                    /\ keyboards'[out'[i].kbd].alive
                    /\ out'[i].kbd \in 1..Len(keyboards)
                          => keyboards[out'[i].kbd].alive]_vars

\* one of the two registered keyboards of the focused client was destroyed:
\* a later keystroke went to the other one only
C38_Witness ==
    /\ Len(keyboards) = 2
    /\ \E d, x \in 1..Len(keyboards) :
          /\ ~keyboards[d].alive
          /\ client_alive[keyboards[d].client]
          /\ keyboards[x].alive
          /\ keyboards[x].client = keyboards[d].client
          /\ known_kbds = <<x>>
          /\ kbd_focus # 0
          /\ SurfaceClient(kbd_focus) = keyboards[x].client
          /\ \E i \in At(out, "wl_keyboard.key") : out[i].kbd = x

(* C39: the seat's data-device state is created at most once, by the      *)
(* first of get_data_device, set_data_device_focus,                       *)
(* set_data_device_selection and start_dnd to touch the seat, with an     *)
(* Empty selection, no focus and no devices; none of them resets an       *)
(* existing selection, focus or device list while making sure the state   *)
(* exists.                                                                *)
C39_Touches ==
    \/ \E c \in Clients : GetDataDevice(c)
    \/ \E c \in Clients \cup {0} : SetDataDeviceFocus(c)
    \/ \E ms \in CompositorMimeLists : SetDataDeviceSelection(ms)
    \/ \E serial \in Serials : StartDnd(serial)

C39_SeatDataCreatedOnce ==
    [][/\ seat_ready => seat_ready'
       /\ ~seat_ready =>
             [known_devices |-> known_devices, selection |-> selection,
              current_focus |-> current_focus] = NewSeatData
       /\ C39_Touches => seat_ready'
       /\ seat_ready' # seat_ready => C39_Touches
       \* the selection changes only by being stored
       /\ selection' # selection =>
             \E i \in 1..Len(out') : out'[i] = StoreSelectionEv(selection')
       \* the focus changes only to the one set_data_device_focus is given
       /\ current_focus' # current_focus =>
             SetDataDeviceFocus(current_focus')
       \* the device list only grows by the device get_data_device makes
       /\ known_devices' # known_devices =>
             /\ Len(devices') = Len(devices) + 1
             /\ known_devices' = Append(known_devices, Len(devices'))
       /\ (\E serial \in Serials : StartDnd(serial)) =>
             UNCHANGED <<known_devices, selection, current_focus>>]_vars

\* start_dnd was called on a seat whose data-device state held two devices,
\* a compositor selection and a focus: all three are still there
C39_Witness ==
    /\ seat_ready
    /\ ptr_grab.kind = "ServerDnD"
    /\ Len(known_devices) = 2
    /\ selection.kind = "Compositor"
    /\ current_focus # 0
    /\ out = <<>>

====
